---------------------------- MODULE Spec2Model ----------------------------
(***************************************************************************)
(* Clinical-trial screening backend: the conversation coordinator with its *)
(* three phase agents (backend/agents) and the eligibility evaluator       *)
(* (backend/eligibility_evaluator.py).                                     *)
(*                                                                         *)
(* The specifications share the variables:                                 *)
(*   Spec          the Coordinator API driven turn by turn                 *)
(*   SpecEval      EligibilityEvaluator.evaluate_eligibility on a session  *)
(*   SpecDecide    EligibilityEvaluator.decide on a list of judgments      *)
(*   SpecSessions  two connections, each with its session and Coordinator  *)
(*   SpecEquiv     the Coordinator and the original ClinicalTrialAgent     *)
(*                 driven by the same turns                                *)
(***************************************************************************)
EXTENDS Integers, Sequences, FiniteSets, TLC

VARIABLES
    criteria,               \* trial_criteria: the priorities of the study's criteria, in question order
    conversation_state,     \* ClinicalTrialCoordinator.conversation_state
    current_agent,          \* ClinicalTrialCoordinator.current_agent, by its key in self.agents
    current_criteria_index, \* QuestioningAgent.current_criteria_index (0-based)
    coord_criteria_index,   \* ClinicalTrialCoordinator.current_criteria_index
    responses,              \* ParticipantSession.responses: criterion id -> stored text
    response,               \* the value returned by the last Coordinator call
    turn,                   \* the last call: its inputs and the outcomes of the external calls it made
    verdict,                \* the dict returned by evaluate_eligibility, NoVerdict before the call
    questions,              \* decide: the argument, a list of <<category, result, confidence>>
    decision,               \* decide: the returned verdict, "none" before the call
    peer,                   \* the other connection of the ConnectionManager, NoPeer if there is none
    legacy                  \* a ClinicalTrialAgent with its own session, NoLegacy if there is none

vars == <<criteria, conversation_state, current_agent, current_criteria_index,
          coord_criteria_index, responses, response, turn, verdict,
          questions, decision, peer, legacy>>

conv_vars == <<conversation_state, current_agent, current_criteria_index,
               coord_criteria_index, responses, response, turn>>

(***************************************************************************)
(* Python float arithmetic.  A float is an IEEE-754 binary64 number; the   *)
(* decision algorithm multiplies and adds such numbers, and every          *)
(* operation rounds its exact result to 53 significant bits, ties to even. *)
(* A float is modelled exactly, as a sign and a magnitude counted in units *)
(* of 2^-FracBits; the magnitude is a little-endian triple of limbs of     *)
(* LimbBits bits each.  Every float that the decision algorithm produces   *)
(* from the confidences below is a multiple of 2^-FracBits and below       *)
(* 2^(3*LimbBits-FracBits), so the representation loses nothing.           *)
(***************************************************************************)
MantBits == 53
LimbBits == 24
FracBits == 60
Limb == 2^LimbBits

MagZero == <<0, 0, 0>>

MagAdd(a, b) ==
    LET s1 == a[1] + b[1]
        s2 == a[2] + b[2] + (s1 \div Limb)
        s3 == a[3] + b[3] + (s2 \div Limb)
    IN  <<s1 % Limb, s2 % Limb, s3>>

\* a - b for a >= b
MagSub(a, b) ==
    LET d1 == a[1] - b[1]
        w1 == IF d1 < 0 THEN 1 ELSE 0
        d2 == a[2] - b[2] - w1
        w2 == IF d2 < 0 THEN 1 ELSE 0
        d3 == a[3] - b[3] - w2
    IN  <<d1 + w1 * Limb, d2 + w2 * Limb, d3>>

MagLt(a, b) ==
    \/ a[3] < b[3]
    \/ a[3] = b[3] /\ a[2] < b[2]
    \/ a[3] = b[3] /\ a[2] = b[2] /\ a[1] < b[1]

\* a * k for a small natural k
MagMulSmall(a, k) ==
    LET p1 == a[1] * k
        p2 == a[2] * k + (p1 \div Limb)
        p3 == a[3] * k + (p2 \div Limb)
    IN  <<p1 % Limb, p2 % Limb, p3>>

\* <<floor(a / d), a mod d>> for a small positive d
MagDivSmall(a, d) ==
    LET q3 == a[3] \div d
        r3 == a[3] % d
        n2 == r3 * Limb + a[2]
        q2 == n2 \div d
        r2 == n2 % d
        n1 == r2 * Limb + a[1]
    IN  <<(<<n1 \div d, q2, q3>>), n1 % d>>

RECURSIVE BitLenInt(_)
BitLenInt(n) == IF n = 0 THEN 0 ELSE 1 + BitLenInt(n \div 2)

BitLen(a) ==
    IF a[3] > 0 THEN 2 * LimbBits + BitLenInt(a[3])
    ELSE IF a[2] > 0 THEN LimbBits + BitLenInt(a[2])
    ELSE BitLenInt(a[1])

\* Round a magnitude to MantBits significant bits, ties to even; sticky says
\* that the exact value lies strictly above the magnitude (a non-zero
\* remainder was already dropped below the last unit).
RoundMag(a, sticky) ==
    LET n    == BitLen(a)
        drop == n - MantBits
        unit == 2^drop
        rem  == a[1] % unit
        half == unit \div 2
        odd  == (a[1] \div unit) % 2 = 1
        up   == \/ rem > half
                \/ rem = half /\ (sticky \/ odd)
        cut  == <<a[1] - rem, a[2], a[3]>>
    IN  IF n <= MantBits THEN a
        ELSE IF up THEN MagAdd(cut, <<unit, 0, 0>>) ELSE cut

FZero == [neg |-> FALSE, mag |-> MagZero]

\* float(k/d) as json.loads or the Python parser reads the decimal literal
FromDecimal(k, d) ==
    LET qr == MagDivSmall(<<0, 0, k * 2^(FracBits - 2 * LimbBits)>>, d)
    IN  [neg |-> FALSE, mag |-> RoundMag(qr[1], qr[2] # 0)]

FNeg(x) == [neg |-> ~x.neg, mag |-> x.mag]

\* the exact sum of two signed magnitudes
ExactAdd(x, y) ==
    IF x.neg = y.neg
    THEN [neg |-> x.neg, mag |-> MagAdd(x.mag, y.mag)]
    ELSE IF x.mag = y.mag THEN FZero
    ELSE IF MagLt(x.mag, y.mag)
         THEN [neg |-> y.neg, mag |-> MagSub(y.mag, x.mag)]
         ELSE [neg |-> x.neg, mag |-> MagSub(x.mag, y.mag)]

\* x + y
FAdd(x, y) ==
    LET e == ExactAdd(x, y)
    IN  [neg |-> e.neg, mag |-> RoundMag(e.mag, FALSE)]

\* x * (h/2) for a weight given in halves
FMulHalves(x, h) ==
    LET qr == MagDivSmall(MagMulSmall(x.mag, h), 2)
    IN  [neg |-> x.neg, mag |-> RoundMag(qr[1], qr[2] # 0)]

\* x >= y
FGe(x, y) ==
    LET xn == x.neg /\ x.mag # MagZero
        yn == y.neg /\ y.mag # MagZero
    IN  IF xn # yn THEN yn
        ELSE IF xn THEN ~MagLt(y.mag, x.mag)
        ELSE ~MagLt(x.mag, y.mag)

\* round(x, 2), as a signed number of hundredths: the multiple of 1/100
\* nearest to the exact value of x, ties to the even one
RoundHundredths(x) ==
    LET p    == MagMulSmall(x.mag, 100)
        top  == 2^(FracBits - 2 * LimbBits)
        h    == p[3] \div top
        rem  == <<p[1], p[2], p[3] % top>>
        half == <<0, 0, top \div 2>>
        up   == MagLt(half, rem) \/ (rem = half /\ h % 2 = 1)
        n    == IF up THEN h + 1 ELSE h
    IN  IF x.neg THEN 0 - n ELSE n

(***************************************************************************)
(* EligibilityEvaluator: the decision algorithm.                           *)
(***************************************************************************)
Priorities == {"high", "medium", "low"}

HIGH_PRIORITY_CONFIDENCE_THRESHOLD == FromDecimal(8, 10)
DECISION_THRESHOLD == FZero

\* self.weights, in halves: 5.0, 2.5, 1.0
weights == [high |-> 10, medium |-> 5, low |-> 2]

\* result_str = 'Yes' if (result is True or result == 'Yes') else 'No'
result_str(result) == IF result = TRUE THEN "Yes" ELSE "No"

\* sign * conf * self.weights[cat]
WeightedTerm(q) ==
    LET signed == IF result_str(q[2]) = "Yes" THEN q[3] ELSE FNeg(q[3])
    IN  FMulHalves(signed, weights[q[1]])

\* total after the first n iterations of the second loop
RECURSIVE WeightedTotal(_, _)
WeightedTotal(qs, n) ==
    IF n = 0 THEN FZero
    ELSE FAdd(WeightedTotal(qs, n - 1), WeightedTerm(qs[n]))

\* the rule with > in place of >=
ImmediateReject_strict(qs) ==
    \E i \in 1..Len(qs) :
        /\ qs[i][1] = "high"
        /\ result_str(qs[i][2]) = "No"
        /\ ~FGe(HIGH_PRIORITY_CONFIDENCE_THRESHOLD, qs[i][3])

ImmediateReject(qs) ==
    \E i \in 1..Len(qs) :
        /\ qs[i][1] = "high"
        /\ result_str(qs[i][2]) = "No"
        /\ FGe(qs[i][3], HIGH_PRIORITY_CONFIDENCE_THRESHOLD)

\* the threshold check with > in place of >=
decide_strict(qs) ==
    IF ImmediateReject(qs) THEN "Reject"
    ELSE IF FGe(WeightedTotal(qs, Len(qs)), DECISION_THRESHOLD)
            /\ WeightedTotal(qs, Len(qs)).mag # MagZero
         THEN "Accept" ELSE "Reject"

decide(qs) ==
    IF ImmediateReject(qs) THEN "Reject"
    ELSE IF FGe(WeightedTotal(qs, Len(qs)), DECISION_THRESHOLD)
         THEN "Accept" ELSE "Reject"

(***************************************************************************)
(* Texts.  A user text is a sequence of characters; str.strip() removes    *)
(* the leading and trailing whitespace.                                    *)
(***************************************************************************)
Whitespace == {" ", "\n", "\t"}

RECURSIVE lstrip(_)
lstrip(s) == IF s # <<>> /\ Head(s) \in Whitespace THEN lstrip(Tail(s)) ELSE s

RECURSIVE rstrip(_)
rstrip(s) ==
    IF s # <<>> /\ s[Len(s)] \in Whitespace
    THEN rstrip(SubSeq(s, 1, Len(s) - 1)) ELSE s

strip(s) == rstrip(lstrip(s))

\* "Ambiguous sound."
AmbiguousSound ==
    <<"A", "m", "b", "i", "g", "u", "o", "u", "s", " ",
      "s", "o", "u", "n", "d", ".">>

(***************************************************************************)
(* The Intent Classifier: client.chat.completions.create either raises     *)
(* (LlmError) or returns some message content.  The agents normalise the   *)
(* content with .strip().lower() or .strip().upper().                      *)
(***************************************************************************)
LlmError == "<raised>"

LlmContents ==
    {"YES", "NO", "CLARIFY", "no", "answer", "decline", "Decline\n",
     "repeat_current", "repeat_previous", "unclear", "ambiguous",
     "submit", "repeat_instruction", "study_question"}

LlmReplies == LlmContents \cup {LlmError}

\* content.strip().lower()
strip_lower(c) ==
    CASE c = "YES" -> "yes"
      [] c = "NO" -> "no"
      [] c = "CLARIFY" -> "clarify"
      [] c = "Decline\n" -> "decline"
      [] OTHER -> c

\* content.strip().upper()
strip_upper(c) ==
    CASE c = "no" -> "NO"
      [] c = "answer" -> "ANSWER"
      [] c = "decline" -> "DECLINE"
      [] c = "Decline\n" -> "DECLINE"
      [] c = "repeat_current" -> "REPEAT_CURRENT"
      [] c = "repeat_previous" -> "REPEAT_PREVIOUS"
      [] c = "unclear" -> "UNCLEAR"
      [] c = "ambiguous" -> "AMBIGUOUS"
      [] c = "submit" -> "SUBMIT"
      [] c = "repeat_instruction" -> "REPEAT_INSTRUCTION"
      [] c = "study_question" -> "STUDY_QUESTION"
      [] OTHER -> c

(***************************************************************************)
(* Turn responses: Python dicts, modelled as functions from keys to        *)
(* values.  The content is a pair <<kind, criterion id or 0>>.             *)
(***************************************************************************)
Merge(base, kwargs) ==
    [k \in DOMAIN base \cup DOMAIN kwargs |->
        IF k \in DOMAIN kwargs THEN kwargs[k] ELSE base[k]]

\* BaseAgent._create_response
_create_response(content, requires_response, is_final, kwargs) ==
    Merge([content |-> content,
           requires_response |-> requires_response,
           is_final |-> is_final,
           total_questions |-> Len(criteria)], kwargs)

\* response.get(key), used as a truth value
Truthy(r, key) == key \in DOMAIN r /\ r[key] = TRUE

\* response.get("transition_to") == value
TransitionIs(r, value) == "transition_to" \in DOMAIN r /\ r["transition_to"] = value

\* What an agent call hands back to the Coordinator: the response, the
\* agent's effect on the session and on its index, and the external calls.
AgentResult(resp, newResponses, newIndex, intent, reply, responder) ==
    [response |-> resp, responses |-> newResponses, index |-> newIndex,
     intent |-> intent, reply |-> reply, responder |-> responder]

NotCalled == "not_called"

ResponderOutcome(ok) == IF ok THEN "ok" ELSE "failed"

(***************************************************************************)
(* QuestioningAgent.  The id of the criterion at 0-based index i is i + 1. *)
(***************************************************************************)
CriteriaId(i) == i + 1

_ask_current_criteria_question(index) ==
    IF index < Len(criteria)
    THEN _create_response(<<"question", CriteriaId(index)>>, TRUE, FALSE,
            [question_number |-> index + 1, total_questions |-> Len(criteria)])
    ELSE _create_response(<<"completed_all_questions", 0>>, FALSE, FALSE,
            [question_number |-> Len(criteria), total_questions |-> Len(criteria)])

valid_intents == {"repeat_current", "repeat_previous", "decline", "answer", "unclear"}

\* the classifier falling back to "unclear" instead of "answer"
_classify_user_intent_unclear(user_message, reply) ==
    IF strip(user_message) = AmbiguousSound THEN "ambiguous"
    ELSE IF reply = LlmError THEN "unclear"
    ELSE IF strip_lower(reply) \in valid_intents THEN strip_lower(reply)
    ELSE "unclear"

\* the sentinel compared with the text as typed
_classify_user_intent_untrimmed(user_message, reply) ==
    IF user_message = AmbiguousSound THEN "ambiguous"
    ELSE IF reply = LlmError THEN "answer"
    ELSE IF strip_lower(reply) \in valid_intents THEN strip_lower(reply)
    ELSE "answer"

_classify_user_intent(user_message, reply) ==
    IF strip(user_message) = AmbiguousSound THEN "ambiguous"
    ELSE IF reply = LlmError THEN "answer"
    ELSE IF strip_lower(reply) \in valid_intents THEN strip_lower(reply)
    ELSE "answer"

\* the classifier is not consulted for the sentinel text
ClassifierReply(user_message, reply) ==
    IF strip(user_message) = AmbiguousSound THEN NotCalled ELSE reply

QuestioningAmbiguous(index) ==
    _create_response(<<"speak_clearly", 0>>, TRUE, FALSE,
        [question_number |-> index + 1, total_questions |-> Len(criteria)])

\* a failed Responder ending the interview
_handle_unclear_response_giveUp(index, responder_ok) ==
    _create_response(
        IF responder_ok THEN <<"generated", 0>>
        ELSE <<"unclear_fallback", CriteriaId(index)>>,
        responder_ok, ~responder_ok,
        [question_number |-> index + 1, total_questions |-> Len(criteria)])

_handle_unclear_response(index, responder_ok) ==
    _create_response(
        IF responder_ok THEN <<"generated", 0>>
        ELSE <<"unclear_fallback", CriteriaId(index)>>,
        TRUE, FALSE,
        [question_number |-> index + 1, total_questions |-> Len(criteria)])

QuestioningDecline(index) ==
    _create_response(<<"withdrawn_questioning", 0>>, FALSE, TRUE,
        [consent_rejected |-> TRUE, question_number |-> index + 1,
         total_questions |-> Len(criteria)])

\* going back without the index > 0 guard
RepeatPreviousIndex_unguarded(index) == index - 1

\* going back to the first question
RepeatPreviousIndex_restart(index) == 0

\* the index and the session after a repeat_previous
RepeatPreviousIndex(index) == IF index > 0 THEN index - 1 ELSE index

\* going back without deleting the previous answer
RepeatPreviousResponses_kept(index, resps) == resps

RepeatPreviousResponses(index, resps) ==
    IF index > 0
    THEN [id \in DOMAIN resps \ {CriteriaId(index - 1)} |-> resps[id]]
    ELSE resps

\* the answer stored as typed
StoreAnswer_raw(index, resps, user_input) ==
    [id \in DOMAIN resps \cup {CriteriaId(index)} |->
        IF id = CriteriaId(index) THEN user_input ELSE resps[id]]

\* self.session.responses[current_criteria.id] = user_input.strip()
StoreAnswer(index, resps, user_input) ==
    [id \in DOMAIN resps \cup {CriteriaId(index)} |->
        IF id = CriteriaId(index) THEN strip(user_input) ELSE resps[id]]

\* the last answer returning the submission prompt without the transition
AfterAnswer_noTransition(newIndex) ==
    IF newIndex < Len(criteria)
    THEN _ask_current_criteria_question(newIndex)
    ELSE _create_response(<<"submission_prompt", 0>>, TRUE, FALSE,
            [awaiting_submission |-> TRUE,
             question_number |-> Len(criteria), total_questions |-> Len(criteria)])

\* the response after the answer has been stored and the index advanced
AfterAnswer(newIndex) ==
    IF newIndex < Len(criteria)
    THEN _ask_current_criteria_question(newIndex)
    ELSE _create_response(<<"submission_prompt", 0>>, TRUE, FALSE,
            [transition_to |-> "submission", awaiting_submission |-> TRUE,
             question_number |-> Len(criteria), total_questions |-> Len(criteria)])

\* past the last criterion the agent hands over to the submission phase
QuestioningFinished_handOver ==
    _create_response(<<"submission_prompt", 0>>, TRUE, FALSE,
        [transition_to |-> "submission", awaiting_submission |-> TRUE,
         question_number |-> Len(criteria), total_questions |-> Len(criteria)])

QuestioningFinished ==
    _create_response(<<"interview_completed", 0>>, FALSE, TRUE,
        [question_number |-> Len(criteria), total_questions |-> Len(criteria)])

QuestioningProcessInput(user_input, reply, responder_ok, index, resps) ==
    LET intent == _classify_user_intent(user_input, reply)
        called == ClassifierReply(user_input, reply)
    IN  IF index < Len(criteria)
        THEN CASE intent = "ambiguous" ->
                    AgentResult(QuestioningAmbiguous(index), resps, index,
                                intent, called, NotCalled)
               [] intent = "unclear" ->
                    AgentResult(_handle_unclear_response(index, responder_ok),
                                resps, index, intent, called,
                                ResponderOutcome(responder_ok))
               [] intent = "decline" ->
                    AgentResult(QuestioningDecline(index), resps, index,
                                intent, called, NotCalled)
               [] intent = "repeat_current" ->
                    AgentResult(_ask_current_criteria_question(index), resps,
                                index, intent, called, NotCalled)
               [] intent = "repeat_previous" ->
                    AgentResult(
                        _ask_current_criteria_question(RepeatPreviousIndex(index)),
                        RepeatPreviousResponses(index, resps),
                        RepeatPreviousIndex(index), intent, called, NotCalled)
               [] OTHER ->
                    AgentResult(AfterAnswer(index + 1),
                                StoreAnswer(index, resps, user_input),
                                index + 1, intent, called, NotCalled)
        ELSE AgentResult(QuestioningFinished, resps, index,
                         "none", NotCalled, NotCalled)

(***************************************************************************)
(* ConsentAgent.                                                           *)
(***************************************************************************)
\* get_initial_message: the generated greeting, or the templated fallback
ConsentInitialMessage(responder_ok) ==
    _create_response(
        IF responder_ok THEN <<"generated", 0>> ELSE <<"greeting_fallback", 0>>,
        TRUE, FALSE,
        [question_number |-> 0, total_questions |-> Len(criteria)])

\* a label outside the taxonomy read as a refusal
ConsentIntent_strict(reply) ==
    IF strip_upper(reply) \in {"YES", "NO", "CLARIFY"} THEN strip_upper(reply)
    ELSE "NO"

ConsentIntent(reply) == strip_upper(reply)

ConsentProcessInput(user_input, reply, responder_ok, index, resps) ==
    IF strip(user_input) = AmbiguousSound
    THEN AgentResult(
            _create_response(<<"speak_clearly", 0>>, TRUE, FALSE,
                [question_number |-> 0, total_questions |-> Len(criteria)]),
            resps, index, "ambiguous", NotCalled, NotCalled)
    ELSE IF reply = LlmError
    THEN AgentResult(
            _create_response(<<"consent_error", 0>>, FALSE, TRUE,
                [question_number |-> 0, total_questions |-> Len(criteria)]),
            resps, index, "none", reply, NotCalled)
    ELSE IF ConsentIntent(reply) = "YES"
    THEN AgentResult(
            _create_response(<<"lets_begin", 0>>, FALSE, FALSE,
                [transition_to |-> "questioning", question_number |-> 1,
                 total_questions |-> Len(criteria)]),
            resps, index, "YES", reply, NotCalled)
    ELSE IF ConsentIntent(reply) = "NO"
    THEN AgentResult(
            _create_response(<<"consent_declined", 0>>, FALSE, TRUE,
                [consent_rejected |-> TRUE, question_number |-> 0,
                 total_questions |-> Len(criteria)]),
            resps, index, "NO", reply, NotCalled)
    ELSE AgentResult(
            _create_response(
                IF responder_ok THEN <<"generated", 0>>
                ELSE <<"clarification_fallback", 0>>,
                TRUE, FALSE,
                [question_number |-> 0, total_questions |-> Len(criteria)]),
            resps, index, "CLARIFY", reply, ResponderOutcome(responder_ok))

(***************************************************************************)
(* SubmissionAgent.                                                        *)
(***************************************************************************)
valid_submission_intents ==
    {"repeat_instruction", "submit", "decline", "study_question", "unclear"}

\* the classifier falling back to "submit" instead of "repeat_instruction"
_classify_submission_user_intent_submit(user_message, reply) ==
    IF strip(user_message) = AmbiguousSound THEN "ambiguous"
    ELSE IF reply = LlmError THEN "submit"
    ELSE IF strip_lower(reply) \in valid_submission_intents THEN strip_lower(reply)
    ELSE "submit"

_classify_submission_user_intent(user_message, reply) ==
    IF strip(user_message) = AmbiguousSound THEN "ambiguous"
    ELSE IF reply = LlmError THEN "repeat_instruction"
    ELSE IF strip_lower(reply) \in valid_submission_intents THEN strip_lower(reply)
    ELSE "repeat_instruction"

SubmissionPrompt ==
    _create_response(<<"submission_prompt", 0>>, TRUE, FALSE,
        [awaiting_submission |-> TRUE, question_number |-> Len(criteria),
         total_questions |-> Len(criteria)])

_handle_unclear_submission_response(responder_ok) ==
    _create_response(
        IF responder_ok THEN <<"generated", 0>> ELSE <<"submission_fallback", 0>>,
        TRUE, FALSE,
        [awaiting_submission |-> TRUE, question_number |-> Len(criteria),
         total_questions |-> Len(criteria)])

SubmissionProcessInput(user_input, reply, responder_ok, index, resps) ==
    LET intent == _classify_submission_user_intent(user_input, reply)
        called == ClassifierReply(user_input, reply)
    IN  CASE intent = "ambiguous" ->
                AgentResult(
                    _create_response(<<"speak_clearly", 0>>, TRUE, FALSE,
                        [awaiting_submission |-> TRUE,
                         question_number |-> Len(criteria),
                         total_questions |-> Len(criteria)]),
                    resps, index, intent, called, NotCalled)
          [] intent = "submit" ->
                AgentResult(
                    _create_response(<<"evaluating", 0>>, FALSE, FALSE,
                        [evaluating |-> TRUE, transition_to |-> "evaluation",
                         question_number |-> Len(criteria),
                         total_questions |-> Len(criteria)]),
                    resps, index, intent, called, NotCalled)
          [] intent = "decline" ->
                AgentResult(
                    _create_response(<<"withdrawn_submission", 0>>, FALSE, TRUE,
                        [consent_rejected |-> TRUE,
                         question_number |-> Len(criteria),
                         total_questions |-> Len(criteria)]),
                    resps, index, intent, called, NotCalled)
          [] intent = "repeat_instruction" ->
                AgentResult(SubmissionPrompt, resps, index, intent, called,
                            NotCalled)
          [] OTHER ->
                AgentResult(_handle_unclear_submission_response(responder_ok),
                            resps, index, intent, called,
                            ResponderOutcome(responder_ok))

(***************************************************************************)
(* ClinicalTrialCoordinator.                                               *)
(***************************************************************************)
\* the submission signal mapped to the evaluating state
_handle_state_transition_skip(new_state, state, agent) ==
    CASE new_state = "questioning" -> <<"asking_questions", "questioning">>
      [] new_state = "submission" -> <<"evaluating", agent>>
      [] new_state = "evaluation" -> <<"evaluating", agent>>
      [] new_state = "completed" -> <<"completed", agent>>
      [] OTHER -> <<state, agent>>

\* _handle_state_transition: the <<conversation_state, current_agent>> after it
_handle_state_transition(new_state, state, agent) ==
    CASE new_state = "questioning" -> <<"asking_questions", "questioning">>
      [] new_state = "submission" -> <<"awaiting_submission", "submission">>
      [] new_state = "evaluation" -> <<"evaluating", agent>>
      [] new_state = "completed" -> <<"completed", agent>>
      [] OTHER -> <<state, agent>>

\* the tail of process_user_response: apply response["transition_to"] if present
ApplyTransition(resp, state, agent) ==
    IF "transition_to" \in DOMAIN resp
    THEN _handle_state_transition(resp["transition_to"], state, agent)
    ELSE <<state, agent>>

\* record of one process_user_response call: the state, the index and the
\* session's responses at dispatch, the inputs and what the agent returned
TurnRecord(state, user_message, r) ==
    [op |-> "process_user_response", state |-> state, text |-> user_message,
     reply |-> r.reply, responder |-> r.responder, intent |-> r.intent,
     index |-> current_criteria_index, responses_before |-> responses,
     agent_response |-> r.response]

\* commit the outcome of a phase handler: resp is what the handler returns,
\* <<state, agent>> what it left in conversation_state and current_agent
Commit(resp, state, agent, r, user_message) ==
    LET after == ApplyTransition(resp, state, agent)
    IN  /\ conversation_state' = after[1]
        /\ current_agent' = after[2]
        /\ current_criteria_index' = r.index
        /\ responses' = r.responses
        /\ response' = resp
        /\ turn' = TurnRecord(conversation_state, user_message, r)
        /\ UNCHANGED <<criteria, verdict, questions, decision>>

\* a handler that only looks at is_final of responses that require no reply
StateAfterFinal_consentOnly(resp, state) ==
    IF Truthy(resp, "is_final") /\ ~Truthy(resp, "consent_rejected")
    THEN "completed" ELSE state

\* a handler that ends the interview only on a rejected consent
StateAfterFinal_rejectedOnly(resp, state) ==
    IF Truthy(resp, "consent_rejected") THEN "completed" ELSE state

\* conversation_state after a phase handler's elif
StateAfterFinal(resp, state) ==
    IF Truthy(resp, "consent_rejected") \/ Truthy(resp, "is_final")
    THEN "completed" ELSE state

\* the consent handler returning the ConsentAgent's response on a YES
_handle_consent_phase_passThrough(user_message, reply, responder_ok) ==
    /\ conversation_state \in {"waiting_consent", "consent_clarification"}
    /\ LET r == ConsentProcessInput(user_message, reply, responder_ok,
                                    current_criteria_index, responses)
       IN  /\ coord_criteria_index' = coord_criteria_index
           /\ IF TransitionIs(r.response, "questioning")
              THEN Commit(r.response,
                          "asking_questions", "questioning", r, user_message)
              ELSE Commit(r.response,
                          StateAfterFinal(r.response, conversation_state),
                          current_agent, r, user_message)

\* the consent handler leaving current_agent on the ConsentAgent
_handle_consent_phase_staleAgent(user_message, reply, responder_ok) ==
    /\ conversation_state \in {"waiting_consent", "consent_clarification"}
    /\ LET r == ConsentProcessInput(user_message, reply, responder_ok,
                                    current_criteria_index, responses)
       IN  /\ coord_criteria_index' = coord_criteria_index
           /\ IF TransitionIs(r.response, "questioning")
              THEN Commit(_ask_current_criteria_question(current_criteria_index),
                          "asking_questions", current_agent, r, user_message)
              ELSE Commit(r.response,
                          StateAfterFinal(r.response, conversation_state),
                          current_agent, r, user_message)

_handle_consent_phase(user_message, reply, responder_ok) ==
    /\ conversation_state \in {"waiting_consent", "consent_clarification"}
    /\ LET r == ConsentProcessInput(user_message, reply, responder_ok,
                                    current_criteria_index, responses)
       IN  /\ coord_criteria_index' = coord_criteria_index
           /\ IF TransitionIs(r.response, "questioning")
              THEN Commit(_ask_current_criteria_question(current_criteria_index),
                          "asking_questions", "questioning", r, user_message)
              ELSE Commit(r.response,
                          StateAfterFinal(r.response, conversation_state),
                          current_agent, r, user_message)

_handle_questioning_phase(user_message, reply, responder_ok) ==
    /\ conversation_state \in {"asking_questions", "questioning"}
    /\ LET r == QuestioningProcessInput(user_message, reply, responder_ok,
                                        current_criteria_index, responses)
       IN  /\ coord_criteria_index' = r.index
           /\ IF TransitionIs(r.response, "submission")
              THEN Commit(r.response, "awaiting_submission", "submission",
                          r, user_message)
              ELSE Commit(r.response,
                          StateAfterFinal(r.response, conversation_state),
                          current_agent, r, user_message)

_handle_submission_phase(user_message, reply, responder_ok) ==
    /\ conversation_state \in {"awaiting_submission", "submission"}
    /\ LET r == SubmissionProcessInput(user_message, reply, responder_ok,
                                       current_criteria_index, responses)
       IN  /\ coord_criteria_index' = coord_criteria_index
           /\ IF TransitionIs(r.response, "evaluation")
              THEN Commit(r.response, "evaluating", current_agent,
                          r, user_message)
              ELSE Commit(r.response,
                          StateAfterFinal(r.response, conversation_state),
                          current_agent, r, user_message)

CompletionResponse ==
    [content |-> <<"thank_you_completed", 0>>, requires_response |-> FALSE,
     is_final |-> TRUE, question_number |-> Len(criteria),
     total_questions |-> Len(criteria)]

NoAgentCall == AgentResult(<<>>, responses, current_criteria_index,
                           "none", NotCalled, NotCalled)

_handle_evaluation_completion(user_message) ==
    /\ conversation_state = "evaluating"
    /\ coord_criteria_index' = coord_criteria_index
    /\ Commit(CompletionResponse, "completed", current_agent,
              NoAgentCall, user_message)

\* the else branch asking the participant to go on
DefaultFallback_open(user_message) ==
    /\ conversation_state \notin
          {"waiting_consent", "consent_clarification", "asking_questions",
           "questioning", "awaiting_submission", "submission", "evaluating"}
    /\ coord_criteria_index' = coord_criteria_index
    /\ Commit([content |-> <<"interview_completed", 0>>,
               requires_response |-> TRUE, is_final |-> FALSE,
               question_number |-> Len(criteria),
               total_questions |-> Len(criteria)],
              conversation_state, current_agent, NoAgentCall, user_message)

\* the else branch of process_user_response: greeting, completed
DefaultFallback(user_message) ==
    /\ conversation_state \notin
          {"waiting_consent", "consent_clarification", "asking_questions",
           "questioning", "awaiting_submission", "submission", "evaluating"}
    /\ coord_criteria_index' = coord_criteria_index
    /\ Commit([content |-> <<"interview_completed", 0>>,
               requires_response |-> FALSE, is_final |-> TRUE,
               question_number |-> Len(criteria),
               total_questions |-> Len(criteria)],
              conversation_state, current_agent, NoAgentCall, user_message)

\* the outcome of the greeting generation: the Free-text Responder answered,
\* or it failed and the ConsentAgent's template was used, or the template
\* failed as well (study data without the expected fields)
GreetingOutcome(responder_ok, template_ok) ==
    IF responder_ok THEN "ok"
    ELSE IF template_ok THEN "failed" ELSE "template_failed"

\* the state assigned only after the greeting has been generated
get_initial_greeting_stateAfter(responder_ok, template_ok) ==
    /\ conversation_state = "greeting"
    /\ conversation_state' =
          IF responder_ok THEN "waiting_consent" ELSE conversation_state
    /\ response' =
          IF responder_ok \/ template_ok
          THEN ConsentInitialMessage(responder_ok)["content"]
          ELSE <<"coordinator_fallback", 0>>
    /\ turn' = [op |-> "get_initial_greeting",
                responder |-> GreetingOutcome(responder_ok, template_ok)]
    /\ UNCHANGED <<criteria, current_agent, current_criteria_index,
                   coord_criteria_index, responses, verdict, questions, decision>>

\* get_initial_greeting returns the content string of the greeting; its
\* caller invokes it once, on a new Coordinator
get_initial_greeting(responder_ok, template_ok) ==
    /\ conversation_state = "greeting"
    /\ conversation_state' = "waiting_consent"
    /\ response' =
          IF responder_ok \/ template_ok
          THEN ConsentInitialMessage(responder_ok)["content"]
          ELSE <<"coordinator_fallback", 0>>
    /\ turn' = [op |-> "get_initial_greeting",
                responder |-> GreetingOutcome(responder_ok, template_ok)]
    /\ UNCHANGED <<criteria, current_agent, current_criteria_index,
                   coord_criteria_index, responses, verdict, questions, decision>>

\* complete_interview, called by handle_text_input right after the turn that
\* returned evaluating = true
complete_interview ==
    /\ conversation_state = "evaluating"
    /\ conversation_state' = "completed"
    /\ response' = CompletionResponse
    /\ turn' = [op |-> "complete_interview"]
    /\ UNCHANGED <<criteria, current_agent, current_criteria_index,
                   coord_criteria_index, responses, verdict, questions, decision>>

(***************************************************************************)
(* ClinicalTrialAgent (backend/conversation_agent.py), the original agent  *)
(* that the Coordinator replaces.  An agent with its session is a record   *)
(*   conversation_state, current_criteria_index   its attributes           *)
(*   responses                                    its session's answers    *)
(*   response                                     the value last returned  *)
(***************************************************************************)
Agent_dict(content, requires_response, is_final, question_number, more) ==
    Merge([content |-> content,
           requires_response |-> requires_response,
           is_final |-> is_final,
           question_number |-> question_number,
           total_questions |-> Len(criteria)], more)

NoMore == <<>>

\* ClinicalTrialAgent.__init__ with a new session
Agent_init ==
    [conversation_state |-> "greeting", current_criteria_index |-> 0,
     responses |-> <<>>, response |-> <<>>]

\* ClinicalTrialAgent.get_initial_greeting: a templated string, no external call
Agent_get_initial_greeting(a) ==
    [a EXCEPT !.conversation_state = "waiting_consent",
              !.response = <<"greeting_template", 0>>]

Agent_ask_current_criteria_question(index) ==
    IF index < Len(criteria)
    THEN Agent_dict(<<"question", CriteriaId(index)>>, TRUE, FALSE, index + 1, NoMore)
    ELSE Agent_dict(<<"completed_all_questions", 0>>, FALSE, FALSE,
                    Len(criteria), NoMore)

Agent_valid_intents ==
    {"repeat_current", "repeat_previous", "decline", "answer", "unclear"}

Agent_classify_user_intent(user_message, reply) ==
    IF strip(user_message) = AmbiguousSound THEN "ambiguous"
    ELSE IF reply = LlmError THEN "answer"
    ELSE IF strip_lower(reply) \in Agent_valid_intents THEN strip_lower(reply)
    ELSE "answer"

Agent_valid_submission_intents ==
    {"repeat_instruction", "submit", "decline", "study_question", "unclear"}

Agent_classify_submission_user_intent(user_message, reply) ==
    IF strip(user_message) = AmbiguousSound THEN "ambiguous"
    ELSE IF reply = LlmError THEN "repeat_instruction"
    ELSE IF strip_lower(reply) \in Agent_valid_submission_intents
    THEN strip_lower(reply)
    ELSE "repeat_instruction"

Agent_handle_consent_response(a, user_message, reply, responder_ok) ==
    IF strip(user_message) = AmbiguousSound
    THEN [a EXCEPT !.response =
            Agent_dict(<<"speak_clearly", 0>>, TRUE, FALSE, 0, NoMore)]
    ELSE IF reply = LlmError
    THEN [a EXCEPT !.response =
            Agent_dict(<<"consent_error", 0>>, FALSE, TRUE, 0, NoMore)]
    ELSE IF strip_upper(reply) = "YES"
    THEN [a EXCEPT !.conversation_state = "asking_questions",
                   !.current_criteria_index = 0,
                   !.response = Agent_ask_current_criteria_question(0)]
    ELSE IF strip_upper(reply) = "NO"
    THEN [a EXCEPT !.response =
            Agent_dict(<<"consent_declined", 0>>, FALSE, TRUE, 0,
                       [consent_rejected |-> TRUE])]
    ELSE [a EXCEPT !.response =
            Agent_dict(IF responder_ok THEN <<"generated", 0>>
                       ELSE <<"clarification_fallback", 0>>,
                       TRUE, FALSE, 0, NoMore)]

Agent_handle_unclear_response(a, responder_ok) ==
    [a EXCEPT !.response =
        Agent_dict(IF responder_ok THEN <<"generated", 0>>
                   ELSE <<"unclear_fallback", CriteriaId(a.current_criteria_index)>>,
                   TRUE, FALSE, a.current_criteria_index + 1, NoMore)]

\* the answer and the unrecognised-intent branches of _handle_criteria_questions
Agent_store_answer(a, user_message) ==
    LET index == a.current_criteria_index
        stored == [id \in DOMAIN a.responses \cup {CriteriaId(index)} |->
                      IF id = CriteriaId(index) THEN strip(user_message)
                      ELSE a.responses[id]]
    IN  IF index + 1 < Len(criteria)
        THEN [a EXCEPT !.responses = stored,
                       !.current_criteria_index = index + 1,
                       !.response = Agent_ask_current_criteria_question(index + 1)]
        ELSE [a EXCEPT !.responses = stored,
                       !.current_criteria_index = index + 1,
                       !.conversation_state = "awaiting_submission",
                       !.response =
                          Agent_dict(<<"submission_prompt", 0>>, TRUE, FALSE,
                                     Len(criteria), [awaiting_submission |-> TRUE])]

Agent_handle_criteria_questions(a, user_message, reply, responder_ok) ==
    LET index == a.current_criteria_index
        intent == Agent_classify_user_intent(user_message, reply)
    IN  IF index < Len(criteria)
        THEN CASE intent = "ambiguous" ->
                    [a EXCEPT !.response =
                        Agent_dict(<<"speak_clearly", 0>>, TRUE, FALSE,
                                   index + 1, NoMore)]
               [] intent = "unclear" ->
                    Agent_handle_unclear_response(a, responder_ok)
               [] intent = "decline" ->
                    [a EXCEPT !.response =
                        Agent_dict(<<"withdrawn_questioning", 0>>, FALSE, TRUE,
                                   index + 1, [consent_rejected |-> TRUE])]
               [] intent = "repeat_current" ->
                    [a EXCEPT !.response = Agent_ask_current_criteria_question(index)]
               [] intent = "repeat_previous" ->
                    IF index > 0
                    THEN [a EXCEPT
                            !.responses =
                               [id \in DOMAIN a.responses \ {CriteriaId(index - 1)} |->
                                   a.responses[id]],
                            !.current_criteria_index = index - 1,
                            !.response = Agent_ask_current_criteria_question(index - 1)]
                    ELSE [a EXCEPT !.response =
                            Agent_ask_current_criteria_question(index)]
               [] OTHER -> Agent_store_answer(a, user_message)
        ELSE [a EXCEPT !.response =
                Agent_dict(<<"interview_completed", 0>>, FALSE, TRUE,
                           Len(criteria), NoMore)]

Agent_handle_unclear_submission_response(a, responder_ok) ==
    [a EXCEPT !.response =
        IF responder_ok
        THEN Agent_dict(<<"generated", 0>>, FALSE, FALSE, Len(criteria),
                        [awaiting_submission |-> TRUE])
        ELSE Agent_dict(<<"submission_fallback", 0>>, TRUE, FALSE, Len(criteria),
                        [awaiting_submission |-> TRUE])]

Agent_handle_submission_request(a, user_message, reply, responder_ok) ==
    LET intent == Agent_classify_submission_user_intent(user_message, reply)
    IN  CASE intent = "ambiguous" ->
                [a EXCEPT !.response =
                    Agent_dict(<<"speak_clearly", 0>>, TRUE, FALSE, Len(criteria),
                               [awaiting_submission |-> TRUE])]
          [] intent = "submit" ->
                [a EXCEPT !.conversation_state = "evaluating",
                          !.response =
                             Agent_dict(<<"evaluating", 0>>, FALSE, FALSE,
                                        Len(criteria), [evaluating |-> TRUE])]
          [] intent = "decline" ->
                [a EXCEPT !.response =
                    Agent_dict(<<"withdrawn_submission", 0>>, FALSE, TRUE,
                               Len(criteria), [consent_rejected |-> TRUE])]
          [] intent = "repeat_instruction" ->
                [a EXCEPT !.response =
                    Agent_dict(<<"submission_prompt", 0>>, TRUE, FALSE,
                               Len(criteria), [awaiting_submission |-> TRUE])]
          [] OTHER -> Agent_handle_unclear_submission_response(a, responder_ok)

Agent_process_user_response(a, user_message, reply, responder_ok) ==
    CASE a.conversation_state = "waiting_consent" ->
            Agent_handle_consent_response(a, user_message, reply, responder_ok)
      [] a.conversation_state = "asking_questions" ->
            Agent_handle_criteria_questions(a, user_message, reply, responder_ok)
      [] a.conversation_state = "awaiting_submission" ->
            Agent_handle_submission_request(a, user_message, reply, responder_ok)
      [] OTHER ->
            [a EXCEPT !.response =
                Agent_dict(<<"interview_completed", 0>>, FALSE, TRUE,
                           Len(criteria), NoMore)]

Agent_complete_interview(a) ==
    [a EXCEPT !.conversation_state = "completed",
              !.response =
                 Agent_dict(<<"thank_you_completed", 0>>, FALSE, TRUE,
                            Len(criteria), NoMore)]

(***************************************************************************)
(* EligibilityEvaluator.evaluate_eligibility.  The outcome of one Criterion *)
(* Judge call (_evaluate_single_criteria_async) is                         *)
(*   "ok"             parseable JSON with meets_criteria and confidence    *)
(*   "no_confidence"  parseable JSON without the confidence key            *)
(*   "no_meets"       parseable JSON without the meets_criteria key        *)
(*   "error"          the call raised or the text did not parse            *)
(***************************************************************************)
JudgeOk(meets, conf) == [kind |-> "ok", meets_criteria |-> meets, confidence |-> conf]
JudgeNoConfidence(meets) == [kind |-> "no_confidence", meets_criteria |-> meets]
JudgeNoMeets(conf) == [kind |-> "no_meets", confidence |-> conf]
JudgeError == [kind |-> "error"]

\* the except branch returning the metadata without a default judgment
_evaluate_single_criteria_async_noDefault(trial_criteria, id, participant_response, outcome) ==
    LET metadata == [criteria_id |-> id, priority |-> trial_criteria[id],
                     participant_response |-> participant_response]
    IN  IF outcome.kind = "error"
        THEN metadata
        ELSE Merge([k \in DOMAIN outcome \ {"kind"} |-> outcome[k]], metadata)

\* the dict returned by _evaluate_single_criteria_async
_evaluate_single_criteria_async(trial_criteria, id, participant_response, outcome) ==
    LET metadata == [criteria_id |-> id, priority |-> trial_criteria[id],
                     participant_response |-> participant_response]
    IN  IF outcome.kind = "error"
        THEN Merge(metadata, [meets_criteria |-> FALSE, confidence |-> FZero,
                              reasoning |-> "evaluation_error"])
        ELSE Merge([k \in DOMAIN outcome \ {"kind"} |-> outcome[k]], metadata)

\* the ids of the criteria with a non-empty stored response, in criteria order
RECURSIVE criteria_with_responses(_, _, _)
criteria_with_responses(trial_criteria, resps, n) ==
    IF n = 0 THEN <<>>
    ELSE LET rest == criteria_with_responses(trial_criteria, resps, n - 1)
             resp == IF n \in DOMAIN resps THEN resps[n] ELSE <<>>
         IN  IF resp # <<>> THEN Append(rest, n) ELSE rest

\* the list handed to decide
QuestionsOf(criteria_results) ==
    [i \in 1..Len(criteria_results) |->
        <<criteria_results[i].priority,
          criteria_results[i].meets_criteria,
          IF "confidence" \in DOMAIN criteria_results[i]
          THEN criteria_results[i].confidence ELSE FromDecimal(10, 10)>>]

\* the medium weight of the decision algorithm (2.5) used for the legacy
\* score, truncated
LegacyWeight_decision(priority) ==
    IF priority = "high" THEN 5 ELSE IF priority = "medium" THEN 3 ELSE 1

LegacyWeight(priority) ==
    IF priority = "high" THEN 5 ELSE IF priority = "medium" THEN 2 ELSE 1

\* the sum of the first n numbers of a sequence
RECURSIVE SumSeq(_, _)
SumSeq(seq, n) ==
    IF n = 0 THEN 0 ELSE SumSeq(seq, n - 1) + seq[n]

\* round(total_score / max_score * 100, 1), in tenths of a percent
LegacyScoreTenths(total_score, max_score) ==
    IF max_score > 0
    THEN LET q == (total_score * 1000) \div max_score
             r == (total_score * 1000) % max_score
         IN  IF 2 * r > max_score \/ (2 * r = max_score /\ q % 2 = 1)
             THEN q + 1 ELSE q
    ELSE 0

\* eligible decided with the legacy 70% score as well
Eligible_legacy(decision_result, overall_score_tenths, high_priority_pass) ==
    decision_result = "Accept" /\ overall_score_tenths >= 700 /\ high_priority_pass

\* eligible = (decision == 'Accept')
Eligible(decision_result, overall_score_tenths, high_priority_pass) ==
    decision_result = "Accept"

\* evaluate_eligibility has not returned yet
NoVerdict == [pending |-> TRUE]

ErrorVerdict ==
    [eligible |-> FALSE, score |-> 0, criteria_met |-> <<>>,
     summary |-> "error_occurred"]

evaluate_eligibility(trial_criteria, resps, judge) ==
    LET answered == criteria_with_responses(trial_criteria, resps, Len(trial_criteria))
        criteria_results ==
            [i \in 1..Len(answered) |->
                _evaluate_single_criteria_async(trial_criteria, answered[i],
                    resps[answered[i]], judge[answered[i]])]
        Met(e) == IF e.meets_criteria THEN LegacyWeight(e.priority) ELSE 0
        Max(e) == LegacyWeight(e.priority)
        HighMet(e) == IF e.priority = "high" /\ e.meets_criteria THEN 1 ELSE 0
        High(e) == IF e.priority = "high" THEN 1 ELSE 0
        n == Len(criteria_results)
        qs == QuestionsOf(criteria_results)
        total_score == SumSeq([i \in 1..n |-> Met(criteria_results[i])], n)
        max_score == SumSeq([i \in 1..n |-> Max(criteria_results[i])], n)
        high_priority_met == SumSeq([i \in 1..n |-> HighMet(criteria_results[i])], n)
        high_priority_total == SumSeq([i \in 1..n |-> High(criteria_results[i])], n)
        high_priority_pass ==
            IF high_priority_total > 0
            THEN high_priority_met = high_priority_total ELSE TRUE
        overall == LegacyScoreTenths(total_score, max_score)
        result == decide(qs)
    IN  IF \E i \in 1..n : "meets_criteria" \notin DOMAIN criteria_results[i]
        THEN [verdict |-> ErrorVerdict, questions |-> <<>>, decision |-> "none"]
        ELSE [verdict |->
                [eligible |-> Eligible(result, overall, high_priority_pass),
                 score |-> overall,
                 criteria_met |-> criteria_results,
                 summary |-> "generated",
                 high_priority_criteria_met |->
                     <<high_priority_met, high_priority_total>>,
                 decision_algorithm_score |->
                     RoundHundredths(WeightedTotal(qs, Len(qs))),
                 decision_algorithm_result |-> result],
              questions |-> qs,
              decision |-> result]

(***************************************************************************)
(* Bounds and input sets.                                                  *)
(***************************************************************************)
MaxCriteria == 3        \* criteria of a study, in Spec
MaxEvalCriteria == 2    \* criteria of a study, in SpecEval
MaxJudgments == 3       \* length of the list passed to decide, in SpecDecide

\* the confidences the judge reports, as decimal literals k/10
ConfTenths == {1, 4, 8}
Confidences == {FromDecimal(k, 10) : k \in ConfTenths}
Triples == Priorities \X BOOLEAN \X Confidences

\* what the participant says or types
UserTexts ==
    { <<" ", "o", "k", "\n">>,
      <<"n", "o">>,
      <<" ", " ">>,
      <<" ">> \o AmbiguousSound \o <<"\n">> }

\* a study chosen by its length: the conversation never reads the priorities
StudyOfLength(n) ==
    [i \in 1..n |-> IF i % 3 = 1 THEN "high" ELSE IF i % 3 = 2 THEN "medium" ELSE "low"]

RECURSIVE SeqsUpTo(_, _)
SeqsUpTo(S, n) ==
    IF n = 0 THEN {<<>>}
    ELSE LET shorter == SeqsUpTo(S, n - 1)
         IN  shorter \cup {Append(q, x) : q \in {p \in shorter : Len(p) = n - 1}, x \in S}

JudgeOutcomes ==
    {JudgeOk(m, c) : m \in BOOLEAN, c \in Confidences}
    \cup {JudgeNoConfidence(m) : m \in BOOLEAN}
    \cup {JudgeNoMeets(c) : c \in {FromDecimal(8, 10)}}
    \cup {JudgeError}

\* the texts a session can hold at evaluation
StoredTexts == {<<>>, <<"o", "k">>}

(***************************************************************************)
(* Spec: the Coordinator.                                                  *)
(***************************************************************************)
\* a Coordinator that starts in the questioning phase
CoordinatorInit_questioning ==
    /\ conversation_state = "asking_questions"
    /\ current_agent = "questioning"
    /\ current_criteria_index = 0
    /\ coord_criteria_index = 0
    /\ response = <<>>
    /\ turn = [op |-> "__init__"]

\* ClinicalTrialCoordinator.__init__, which also constructs the three agents
CoordinatorInit ==
    /\ conversation_state = "greeting"
    /\ current_agent = "consent"
    /\ current_criteria_index = 0
    /\ coord_criteria_index = 0
    /\ response = <<>>
    /\ turn = [op |-> "__init__"]

\* create_session: ParticipantSession.__post_init__ leaves responses = {}
SessionInit == responses = <<>>

\* a single connection
NoPeer == [absent |-> TRUE]

\* no ClinicalTrialAgent
NoLegacy == [absent |-> TRUE]

Init ==
    /\ criteria \in {StudyOfLength(n) : n \in 0..MaxCriteria}
    /\ CoordinatorInit
    /\ SessionInit
    /\ verdict = NoVerdict
    /\ questions = <<>>
    /\ decision = "none"
    /\ peer = NoPeer
    /\ legacy = NoLegacy

GetInitialGreeting ==
    /\ \E ok \in BOOLEAN, template_ok \in BOOLEAN :
         (ok => template_ok) /\ get_initial_greeting(ok, template_ok)
    /\ UNCHANGED <<peer, legacy>>

HandleConsentPhase ==
    /\ \E t \in UserTexts, reply \in LlmReplies, ok \in BOOLEAN :
         _handle_consent_phase(t, reply, ok)
    /\ UNCHANGED <<peer, legacy>>

HandleQuestioningPhase ==
    /\ \E t \in UserTexts, reply \in LlmReplies, ok \in BOOLEAN :
         _handle_questioning_phase(t, reply, ok)
    /\ UNCHANGED <<peer, legacy>>

HandleSubmissionPhase ==
    /\ \E t \in UserTexts, reply \in LlmReplies, ok \in BOOLEAN :
         _handle_submission_phase(t, reply, ok)
    /\ UNCHANGED <<peer, legacy>>

HandleEvaluationCompletion ==
    /\ \E t \in UserTexts : _handle_evaluation_completion(t)
    /\ UNCHANGED <<peer, legacy>>

HandleDefaultFallback ==
    /\ \E t \in UserTexts : DefaultFallback(t)
    /\ UNCHANGED <<peer, legacy>>

process_user_response ==
    \/ HandleConsentPhase
    \/ HandleQuestioningPhase
    \/ HandleSubmissionPhase
    \/ HandleEvaluationCompletion
    \/ HandleDefaultFallback

CompleteInterview == complete_interview /\ UNCHANGED <<peer, legacy>>

Next ==
    \/ GetInitialGreeting
    \/ process_user_response
    \/ CompleteInterview

Spec == Init /\ [][Next]_vars

(***************************************************************************)
(* SpecEval: evaluate_eligibility on the session of a finished interview.  *)
(***************************************************************************)
InitEval ==
    /\ criteria \in SeqsUpTo(Priorities, MaxEvalCriteria)
    /\ CoordinatorInit
    /\ responses \in [1..Len(criteria) -> StoredTexts]
    /\ verdict = NoVerdict
    /\ questions = <<>>
    /\ decision = "none"
    /\ peer = NoPeer
    /\ legacy = NoLegacy

EvaluateEligibility ==
    /\ verdict = NoVerdict
    /\ \E judge \in [1..Len(criteria) -> JudgeOutcomes] :
         LET out == evaluate_eligibility(criteria, responses, judge)
         IN  /\ verdict' = out.verdict
             /\ questions' = out.questions
             /\ decision' = out.decision
             /\ turn' = [op |-> "evaluate_eligibility", judge |-> judge]
    /\ UNCHANGED <<criteria, conversation_state, current_agent,
                   current_criteria_index, coord_criteria_index,
                   responses, response, peer, legacy>>

NextEval == EvaluateEligibility

SpecEval == InitEval /\ [][NextEval]_vars

(***************************************************************************)
(* SpecDecide: decide called on every list of at most MaxJudgments         *)
(* judgments whose confidences are the decimal literals ConfTenths / 10.   *)
(***************************************************************************)
InitDecide ==
    /\ criteria = <<>>
    /\ CoordinatorInit
    /\ SessionInit
    /\ verdict = NoVerdict
    /\ questions = <<>>
    /\ decision = "none"
    /\ peer = NoPeer
    /\ legacy = NoLegacy

\* the caller appends a judgment to the list it is going to pass
AppendJudgment ==
    /\ decision = "none"
    /\ Len(questions) < MaxJudgments
    /\ \E t \in Triples : questions' = Append(questions, t)
    /\ UNCHANGED <<criteria, conv_vars, verdict, decision, peer, legacy>>

CallDecide ==
    /\ decision = "none"
    /\ decision' = decide(questions)
    /\ UNCHANGED <<criteria, conv_vars, verdict, questions, peer, legacy>>

NextDecide == AppendJudgment \/ CallDecide

SpecDecide == InitDecide /\ [][NextDecide]_vars

(***************************************************************************)
(* SpecSessions: the ConnectionManager with two connections of different   *)
(* session ids.  Each connection has its own ParticipantSession and its    *)
(* own Coordinator; the handlers of the two connections run interleaved on *)
(* one event loop.  The variables of the Coordinator hold the connection   *)
(* whose handler is running, peer holds the other one:                     *)
(*   running      the connection whose handler is running, 1 or 2          *)
(*   dicts        the responses dict object of each connection's session   *)
(*   coordinator  the attributes of the parked Coordinator and its agents  *)
(*   responses    the parked session's dict as its last turn left it       *)
(***************************************************************************)
MaxSessionCriteria == 1     \* criteria of the study, in SpecSessions

\* the attributes of the running Coordinator and its agents
CoordinatorAttrs ==
    [conversation_state |-> conversation_state,
     current_agent |-> current_agent,
     current_criteria_index |-> current_criteria_index,
     coord_criteria_index |-> coord_criteria_index,
     response |-> response,
     turn |-> turn]

\* every ParticipantSession sharing one responses dict
create_session_sharedDict(n) == 1

\* create_session: the responses dict of the n-th session created;
\* __post_init__ allocates a new dict for each session
create_session(n) == n

InitSessions ==
    /\ criteria \in {StudyOfLength(n) : n \in 0..MaxSessionCriteria}
    /\ CoordinatorInit
    /\ SessionInit
    /\ verdict = NoVerdict
    /\ questions = <<>>
    /\ decision = "none"
    /\ peer = NoPeer
    /\ legacy = NoLegacy

\* ConnectionManager.connect for a second session id: a new session and a
\* new Coordinator; the first connection's handler is parked
connect ==
    /\ peer = NoPeer
    /\ peer' = [running |-> 2,
                dicts |-> <<create_session(1), create_session(2)>>,
                coordinator |-> CoordinatorAttrs,
                responses |-> responses]
    /\ conversation_state' = "greeting"
    /\ current_agent' = "consent"
    /\ current_criteria_index' = 0
    /\ coord_criteria_index' = 0
    /\ response' = <<>>
    /\ turn' = [op |-> "__init__"]
    /\ responses' =
          IF create_session(1) = create_session(2) THEN responses ELSE <<>>
    /\ UNCHANGED <<criteria, verdict, questions, decision, legacy>>

\* the event loop resumes the handler of the other connection: its
\* Coordinator is as it was parked, its session's dict is the object
\* peer.dicts names
ResumeOther ==
    /\ peer # NoPeer
    /\ peer' = [peer EXCEPT !.running = 3 - peer.running,
                            !.coordinator = CoordinatorAttrs,
                            !.responses = responses]
    /\ conversation_state' = peer.coordinator.conversation_state
    /\ current_agent' = peer.coordinator.current_agent
    /\ current_criteria_index' = peer.coordinator.current_criteria_index
    /\ coord_criteria_index' = peer.coordinator.coord_criteria_index
    /\ response' = peer.coordinator.response
    /\ turn' = peer.coordinator.turn
    /\ responses' =
          IF peer.dicts[1] = peer.dicts[2] THEN responses ELSE peer.responses
    /\ UNCHANGED <<criteria, verdict, questions, decision, legacy>>

\* what the two participants say, and what the classifiers reply
SessionTexts == {<<" ", "o", "k", "\n">>, <<"n", "o">>}
SessionReplies == {"YES", "NO", "answer", "repeat_previous", "submit"}

SessionGreeting ==
    /\ get_initial_greeting(TRUE, TRUE)
    /\ UNCHANGED <<peer, legacy>>

SessionTurn ==
    /\ \E t \in SessionTexts, reply \in SessionReplies :
         \/ _handle_consent_phase(t, reply, TRUE)
         \/ _handle_questioning_phase(t, reply, TRUE)
         \/ _handle_submission_phase(t, reply, TRUE)
         \/ _handle_evaluation_completion(t)
         \/ DefaultFallback(t)
    /\ UNCHANGED <<peer, legacy>>

NextSessions ==
    \/ connect
    \/ ResumeOther
    \/ SessionGreeting
    \/ SessionTurn
    \/ CompleteInterview

SpecSessions == InitSessions /\ [][NextSessions]_vars

(***************************************************************************)
(* SpecReconnect: one session id, and a second WebSocket connection made   *)
(* under it while the first is open.  ConnectionManager.connect replaces   *)
(* the Coordinator of the session id with a new one, built on the session  *)
(* found in the registry or, when the registry has none, on a new session. *)
(* After the second connect peer holds                                     *)
(*   session_reused        the registry held the session                   *)
(*   responses_at_connect  the responses the new Coordinator started on    *)
(***************************************************************************)
MaxReconnectCriteria == 2   \* criteria of the study, in SpecReconnect

InitReconnect ==
    /\ criteria \in {StudyOfLength(n) : n \in 0..MaxReconnectCriteria}
    /\ CoordinatorInit
    /\ SessionInit
    /\ verdict = NoVerdict
    /\ questions = <<>>
    /\ decision = "none"
    /\ peer = NoPeer
    /\ legacy = NoLegacy

\* ConnectionManager.connect for the session id of an open connection
connect_again(registered) ==
    /\ peer = NoPeer
    /\ responses' = IF registered THEN responses ELSE <<>>
    /\ peer' = [session_reused |-> registered,
                responses_at_connect |-> responses']
    /\ conversation_state' = "greeting"
    /\ current_agent' = "consent"
    /\ current_criteria_index' = 0
    /\ coord_criteria_index' = 0
    /\ response' = <<>>
    /\ turn' = [op |-> "__init__"]
    /\ UNCHANGED <<criteria, verdict, questions, decision, legacy>>

ConnectAgain == \E registered \in BOOLEAN : connect_again(registered)

\* the greeting and the turns are those of SpecSessions
NextReconnect ==
    \/ ConnectAgain
    \/ SessionGreeting
    \/ SessionTurn
    \/ CompleteInterview

SpecReconnect == InitReconnect /\ [][NextReconnect]_vars

(***************************************************************************)
(* SpecEndpoint: websocket_endpoint serving one connection.  The client    *)
(* may send its next message at any time; the messages wait in the socket  *)
(* until the loop receives them.  peer holds the endpoint:                 *)
(*   loop       where the endpoint coroutine is: "greeting", "receive"     *)
(*              (at await websocket.receive_text()) or "handling" (at      *)
(*              await handle_text_input(...))                              *)
(*   inbox      the texts sent by the client and not yet received          *)
(*   in_flight  the handle_text_input calls that have started and not      *)
(*              returned, each with its message and its position           *)
(*   sent       how many messages the client has sent                      *)
(***************************************************************************)
MaxEndpointCriteria == 1    \* criteria of the study, in SpecEndpoint
MaxMessages == 4            \* messages the client sends
MaxInbox == 2               \* messages waiting in the socket

EndpointTexts == {<<" ", "o", "k", "\n">>}
EndpointReplies == {"YES", "NO", "answer", "repeat_previous", "submit"}
EndpointJudges == {JudgeOk(TRUE, FromDecimal(8, 10)), JudgeError}

InitEndpoint ==
    /\ criteria \in {StudyOfLength(n) : n \in 0..MaxEndpointCriteria}
    /\ CoordinatorInit
    /\ SessionInit
    /\ verdict = NoVerdict
    /\ questions = <<>>
    /\ decision = "none"
    /\ peer = [loop |-> "greeting", inbox |-> <<>>, in_flight |-> <<>>, sent |-> 0]
    /\ legacy = NoLegacy

\* the client sends a text_message
ClientSend ==
    /\ peer.sent < MaxMessages
    /\ Len(peer.inbox) < MaxInbox
    /\ \E t \in EndpointTexts :
         peer' = [peer EXCEPT !.inbox = Append(@, t), !.sent = @ + 1]
    /\ UNCHANGED <<criteria, conv_vars, verdict, questions, decision, legacy>>

\* initial_message = await agent.get_initial_greeting(), before the loop
EndpointGreeting ==
    /\ peer.loop = "greeting"
    /\ get_initial_greeting(TRUE, TRUE)
    /\ peer' = [peer EXCEPT !.loop = "receive"]
    /\ UNCHANGED legacy

\* a loop that starts the handler as a task and goes on receiving
EndpointReceive_spawn ==
    /\ peer.loop \in {"receive", "handling"}
    /\ peer.inbox # <<>>
    /\ peer' = [peer EXCEPT !.inbox = Tail(@),
                            !.in_flight = Append(@, [msg |-> Head(peer.inbox),
                                                     at |-> "process"]),
                            !.loop = "receive"]
    /\ UNCHANGED <<criteria, conv_vars, verdict, questions, decision, legacy>>

\* data = await websocket.receive_text() returns and the loop calls
\* await handle_text_input(session_id, user_message)
EndpointReceive ==
    /\ peer.loop = "receive"
    /\ peer.inbox # <<>>
    /\ peer' = [peer EXCEPT !.inbox = Tail(@),
                            !.in_flight = Append(@, [msg |-> Head(peer.inbox),
                                                     at |-> "process"]),
                            !.loop = "handling"]
    /\ UNCHANGED <<criteria, conv_vars, verdict, questions, decision, legacy>>

\* the handler j has returned: the loop goes back to receive_text
HandlerReturns(j) ==
    [peer EXCEPT !.in_flight = SubSeq(@, 1, j - 1) \o SubSeq(@, j + 1, Len(@)),
                 !.loop = "receive"]

\* handle_text_input up to the check of agent_response["evaluating"]: the
\* turn, then text_to_speech and the send; an exception of these two ends
\* the handler in its except branch
HandlerProcess ==
    \E j \in 1..Len(peer.in_flight) :
        /\ peer.in_flight[j].at = "process"
        /\ \E reply \in EndpointReplies :
              LET t == peer.in_flight[j].msg
              IN  \/ _handle_consent_phase(t, reply, TRUE)
                  \/ _handle_questioning_phase(t, reply, TRUE)
                  \/ _handle_submission_phase(t, reply, TRUE)
                  \/ _handle_evaluation_completion(t)
                  \/ DefaultFallback(t)
        /\ \E sent_ok \in BOOLEAN :
              peer' = IF sent_ok /\ Truthy(response', "evaluating")
                      THEN [peer EXCEPT !.in_flight[j].at = "evaluate"]
                      ELSE HandlerReturns(j)
        /\ UNCHANGED legacy

\* eligibility_result = await study_evaluator.evaluate_eligibility(session)
HandlerEvaluate ==
    \E j \in 1..Len(peer.in_flight) :
        /\ peer.in_flight[j].at = "evaluate"
        /\ \E judge \in [1..Len(criteria) -> EndpointJudges] :
              LET out == evaluate_eligibility(criteria, responses, judge)
              IN  /\ verdict' = out.verdict
                  /\ questions' = out.questions
                  /\ decision' = out.decision
                  /\ turn' = [op |-> "evaluate_eligibility", judge |-> judge]
        /\ peer' = [peer EXCEPT !.in_flight[j].at = "complete"]
        /\ UNCHANGED <<criteria, conversation_state, current_agent,
                       current_criteria_index, coord_criteria_index,
                       responses, response, legacy>>

\* completion_response = agent.complete_interview() and the rest of the
\* handler
HandlerComplete ==
    \E j \in 1..Len(peer.in_flight) :
        /\ peer.in_flight[j].at = "complete"
        /\ complete_interview
        /\ peer' = HandlerReturns(j)
        /\ UNCHANGED legacy

NextEndpoint ==
    \/ ClientSend
    \/ EndpointGreeting
    \/ EndpointReceive
    \/ HandlerProcess
    \/ HandlerEvaluate
    \/ HandlerComplete

SpecEndpoint == InitEndpoint /\ [][NextEndpoint]_vars

(***************************************************************************)
(* SpecStart: a Coordinator is constructed for a study identifier and      *)
(* then started.  Before the construction there is no Coordinator:         *)
(* conversation_state is NoCoordinator and turn says whether the study     *)
(* data holds the identifier.                                              *)
(***************************************************************************)
MaxStartCriteria == 2       \* criteria of a known study, in SpecStart

NoCoordinator == "no_coordinator"

\* load_trial_criteria: the criteria of the study, [] when the study is not
\* found
load_trial_criteria(study_known, study) ==
    IF study_known THEN study ELSE <<>>

InitStart ==
    /\ \E study_known \in BOOLEAN, n \in 0..MaxStartCriteria :
         /\ criteria = load_trial_criteria(study_known, StudyOfLength(n))
         /\ turn = [op |-> "connect", study_known |-> study_known]
    /\ conversation_state = NoCoordinator
    /\ current_agent = "none"
    /\ current_criteria_index = 0
    /\ coord_criteria_index = 0
    /\ response = <<>>
    /\ SessionInit
    /\ verdict = NoVerdict
    /\ questions = <<>>
    /\ decision = "none"
    /\ peer = NoPeer
    /\ legacy = NoLegacy

\* ClinicalTrialCoordinator.__init__: get_study_details returns None for a
\* study that is not found and the constructor raises ValueError; no
\* Coordinator exists afterwards and nothing was returned
Coordinator_init ==
    /\ conversation_state = NoCoordinator
    /\ turn.op = "connect"
    /\ IF turn.study_known
       THEN /\ conversation_state' = "greeting"
            /\ current_agent' = "consent"
            /\ turn' = [op |-> "__init__", study_known |-> TRUE]
       ELSE /\ conversation_state' = NoCoordinator
            /\ current_agent' = "none"
            /\ turn' = [op |-> "__init__", study_known |-> FALSE,
                        raised |-> "ValueError"]
    /\ current_criteria_index' = 0
    /\ coord_criteria_index' = 0
    /\ response' = <<>>
    /\ UNCHANGED <<criteria, responses, verdict, questions, decision,
                   peer, legacy>>

\* a turn of the Coordinator that was constructed; without one there is no
\* object to call
StartTurn ==
    /\ conversation_state # NoCoordinator
    /\ SessionTurn

\* the greeting and complete_interview are those of SpecSessions
NextStart ==
    \/ Coordinator_init
    \/ SessionGreeting
    \/ StartTurn
    \/ CompleteInterview

SpecStart == InitStart /\ [][NextStart]_vars

(***************************************************************************)
(* SpecEquiv: a Coordinator and a ClinicalTrialAgent, each with its own    *)
(* new session, receive the same calls with the same user texts and the    *)
(* same outcomes of the external calls.  legacy holds                      *)
(*   agent           the ClinicalTrialAgent with its session               *)
(*   final_returned  the Coordinator has returned a response with          *)
(*                   is_final = true                                       *)
(***************************************************************************)
MaxEquivCriteria == 2       \* criteria of the study, in SpecEquiv

InitEquiv ==
    /\ criteria \in {StudyOfLength(n) : n \in 0..MaxEquivCriteria}
    /\ CoordinatorInit
    /\ SessionInit
    /\ verdict = NoVerdict
    /\ questions = <<>>
    /\ decision = "none"
    /\ peer = NoPeer
    /\ legacy = [agent |-> Agent_init, final_returned |-> FALSE]

EquivGreeting ==
    /\ \E ok \in BOOLEAN, template_ok \in BOOLEAN :
         (ok => template_ok) /\ get_initial_greeting(ok, template_ok)
    /\ legacy' = [legacy EXCEPT !.agent = Agent_get_initial_greeting(@)]
    /\ UNCHANGED peer

EquivTurn ==
    /\ \E t \in UserTexts, reply \in LlmReplies, ok \in BOOLEAN :
         /\ \/ _handle_consent_phase(t, reply, ok)
            \/ _handle_questioning_phase(t, reply, ok)
            \/ _handle_submission_phase(t, reply, ok)
            \/ _handle_evaluation_completion(t)
            \/ DefaultFallback(t)
         /\ legacy' =
               [agent |-> Agent_process_user_response(legacy.agent, t, reply, ok),
                final_returned |->
                    legacy.final_returned \/ Truthy(response', "is_final")]
    /\ UNCHANGED peer

EquivComplete ==
    /\ complete_interview
    /\ legacy' = [agent |-> Agent_complete_interview(legacy.agent),
                  final_returned |-> TRUE]
    /\ UNCHANGED peer

NextEquiv == EquivGreeting \/ EquivTurn \/ EquivComplete

SpecEquiv == InitEquiv /\ [][NextEquiv]_vars

(***************************************************************************)
(* SpecFailOpen: the questioning phase with a broken Intent Classifier.    *)
(* The interview is somewhere in the questioning phase: the index is i,    *)
(* the criteria before i have stored answers (the trimmed texts of earlier *)
(* turns).  From then on every call of the classifier raises or returns a  *)
(* label outside the questioning taxonomy, and the participant keeps       *)
(* sending texts other than the sentinel.                                  *)
(***************************************************************************)
MaxFailOpenCriteria == 3    \* criteria of the study, in SpecFailOpen

\* the classifier outcomes that are a malfunction in the questioning phase
BrokenReplies ==
    {r \in LlmReplies : r = LlmError \/ strip_lower(r) \notin valid_intents}

\* the texts that are not the sentinel
PlainTexts == {t \in UserTexts : strip(t) # AmbiguousSound}

\* what earlier answer turns have stored
StoredAnswers == {strip(t) : t \in PlainTexts}

InitFailOpen ==
    /\ criteria \in {StudyOfLength(n) : n \in 0..MaxFailOpenCriteria}
    /\ conversation_state = "asking_questions"
    /\ current_agent = "questioning"
    /\ current_criteria_index \in {i \in 0..Len(criteria) : i < Len(criteria) \/ i = 0}
    /\ coord_criteria_index = current_criteria_index
    /\ responses \in [1..current_criteria_index -> StoredAnswers]
    /\ response = _ask_current_criteria_question(current_criteria_index)
    /\ turn = [op |-> "earlier_turns"]
    /\ verdict = NoVerdict
    /\ questions = <<>>
    /\ decision = "none"
    /\ peer = NoPeer
    /\ legacy = NoLegacy

FailOpenTurn ==
    /\ \E t \in PlainTexts, reply \in BrokenReplies, ok \in BOOLEAN :
         _handle_questioning_phase(t, reply, ok)
    /\ UNCHANGED <<peer, legacy>>

NextFailOpen == FailOpenTurn

\* the participant keeps sending texts
SpecFailOpen == InitFailOpen /\ [][NextFailOpen]_vars /\ WF_vars(FailOpenTurn)

(***************************************************************************)
(* Properties.                                                             *)
(***************************************************************************)
\* the decimal literal k/10 that a confidence was read from
ConfLiteral(c) == CHOOSE k \in 0..10 : FromDecimal(k, 10) = c

\* a high-priority failure with confidence >= 0.8
StrongHighFailure(q) ==
    q[1] = "high" /\ q[2] = FALSE /\ ConfLiteral(q[3]) >= 8

HasStrongHighFailure(qs) == \E i \in 1..Len(qs) : StrongHighFailure(qs[i])

\* sum of sign * confidence * weight with the confidences taken as the
\* decimal numbers k/10, in units of 1/20
DecimalSum(qs) ==
    LET T(q) == (IF q[2] THEN 1 ELSE -1) * ConfLiteral(q[3]) * weights[q[1]]
    IN  SumSeq([i \in 1..Len(qs) |-> T(qs[i])], Len(qs))

\* the same sum with the confidences taken as the exact values of the
\* floats, computed without any rounding, in units of 2^-(FracBits+1)
RECURSIVE ExactFloatSum(_, _)
ExactFloatSum(qs, n) ==
    IF n = 0 THEN FZero
    ELSE ExactAdd(ExactFloatSum(qs, n - 1),
                  [neg |-> ~qs[n][2],
                   mag |-> MagMulSmall(qs[n][3].mag, weights[qs[n][1]])])

ExactNonNegative(x) == ~x.neg \/ x.mag = MagZero

\* C1: whenever the list handed to decide holds a high-priority failure with
\* confidence >= 0.8, decide returns Reject and the verdict of
\* evaluate_eligibility has eligible = false, whatever the other judgments.
C1_ImmediateReject ==
    (verdict # NoVerdict /\ HasStrongHighFailure(questions)) =>
        (decision = "Reject" /\ verdict.eligible = FALSE)

\* C1 witness: a strong high-priority failure rejected although the weighted
\* sum of all the judgments is not negative
C1_Witness ==
    /\ verdict # NoVerdict
    /\ HasStrongHighFailure(questions)
    /\ Len(questions) >= 2
    /\ DecimalSum(questions) >= 0
    /\ decision = "Reject"
    /\ verdict.eligible = FALSE

\* C2: with no high-priority failure at confidence >= 0.8, decide returns
\* Accept if and only if the exact weighted sum is >= 0 (a sum of exactly 0
\* is Accept).  The sum is taken either over the decimal confidences or over
\* the exact values of the floats; the claim fails only if the verdict
\* disagrees with both.
C2_AcceptIffSumNonNegative ==
    (decision # "none" /\ ~HasStrongHighFailure(questions)) =>
        \/ (decision = "Accept") <=> (DecimalSum(questions) >= 0)
        \/ (decision = "Accept") <=>
               ExactNonNegative(ExactFloatSum(questions, Len(questions)))

\* the list qs reordered by the permutation p of its indexes
Reordered(qs, p) == [i \in 1..Len(qs) |-> qs[p[i]]]

\* C3: decide is order-independent: every permutation of the list gets the
\* verdict that the list got.
C3_OrderIndependent ==
    decision # "none" =>
        \A p \in Permutations(1..Len(questions)) :
            decide(Reordered(questions, p)) = decision

\* C4: on the normal path of evaluate_eligibility, eligible is true exactly
\* when decide returned Accept for the gathered triples; the legacy score and
\* the high-priority count have no say.
C4_EligibleIsDecision ==
    (verdict # NoVerdict /\ verdict.summary # "error_occurred") =>
        /\ questions = QuestionsOf(verdict.criteria_met)
        /\ verdict.decision_algorithm_result = decision
        /\ verdict.eligible = (decision = "Accept")

\* C4 witness: eligible although the legacy score is below 60% and a
\* high-priority criterion is not met
C4_Witness ==
    /\ verdict # NoVerdict
    /\ verdict.summary # "error_occurred"
    /\ verdict.eligible = TRUE
    /\ verdict.score < 600
    /\ verdict.high_priority_criteria_met[1] < verdict.high_priority_criteria_met[2]

\* the Coordinator states of the three phases
ConsentStates == {"waiting_consent", "consent_clarification"}
QuestioningStates == {"asking_questions", "questioning"}
SubmissionStates == {"awaiting_submission", "submission"}

IsTurn(t) == t.op = "process_user_response"

\* a turn in which the Intent Classifier was consulted and either raised or
\* returned a label outside the given taxonomy
ClassifierMalfunction(t, taxonomy) ==
    /\ t.reply # NotCalled
    /\ t.reply = LlmError \/ strip_lower(t.reply) \notin taxonomy

\* C5: the questioning index always lies in 0 .. len(criteria).
C5_IndexInBounds ==
    current_criteria_index \in 0..Len(criteria)

\* C5 witness: a repeat_previous turn that left the index at 0
C5_Witness ==
    /\ IsTurn(turn)
    /\ turn.state \in QuestioningStates
    /\ turn.intent = "repeat_previous"
    /\ current_criteria_index = 0
    /\ Len(criteria) >= 2

\* C6: whenever the index equals len(criteria), every criterion has a stored
\* response and that response is a non-empty string.
C6_AllAnsweredNonEmpty ==
    current_criteria_index = Len(criteria) =>
        \A id \in 1..Len(criteria) :
            id \in DOMAIN responses /\ responses[id] # <<>>

\* C7: the keys of session.responses are exactly the ids of the criteria
\* before the index.
C7_KeysAreAnsweredCriteria ==
    DOMAIN responses = {CriteriaId(i) : i \in 0..(current_criteria_index - 1)}

\* C7 witness: a repeat_previous turn that went back from a later question
\* and left an earlier answer in place
C7_Witness ==
    /\ IsTurn(turn)
    /\ turn.intent = "repeat_previous"
    /\ current_criteria_index >= 1
    /\ current_criteria_index < Len(criteria)
    /\ DOMAIN responses # {}

\* a turn classified as a decline: NO in consent, decline elsewhere
IsDecline(t) ==
    /\ IsTurn(t)
    /\ \/ t.state \in ConsentStates /\ t.intent = "NO"
       \/ t.state \in QuestioningStates /\ t.intent = "decline"
       \/ t.state \in SubmissionStates /\ t.intent = "decline"

\* C8: a turn classified as a decline returns is_final = true,
\* consent_rejected = true, requires_response = false, completes the
\* Coordinator in the same turn and leaves the index and the answers alone.
C8_DeclineIsTerminal ==
    [][IsDecline(turn') =>
        /\ response'.is_final = TRUE
        /\ Truthy(response', "consent_rejected")
        /\ response'.requires_response = FALSE
        /\ conversation_state' = "completed"
        /\ current_criteria_index' = current_criteria_index
        /\ responses' = responses]_vars

\* C8 witness: a decline during questioning after the first answer
C8_Witness ==
    /\ IsDecline(turn)
    /\ turn.state = "asking_questions"
    /\ current_criteria_index >= 1
    /\ conversation_state = "completed"

\* C9: in questioning, a classifier failure or an out-of-taxonomy label has
\* exactly the effect of an answer: the trimmed text is stored under the
\* current criterion's id and the index increases by one.
C9_QuestioningFailsOpenToAnswer ==
    [][(/\ IsTurn(turn')
        /\ turn'.state \in QuestioningStates
        /\ ClassifierMalfunction(turn', valid_intents)) =>
        /\ turn'.intent = "answer"
        /\ current_criteria_index' = current_criteria_index + 1
        /\ responses' =
              [id \in DOMAIN responses \cup {CriteriaId(current_criteria_index)} |->
                  IF id = CriteriaId(current_criteria_index)
                  THEN strip(turn'.text) ELSE responses[id]]]_vars

\* C9 witness: the classifier returned "submit" during questioning and the
\* text was stored as the answer
C9_Witness ==
    /\ IsTurn(turn)
    /\ turn.state \in QuestioningStates
    /\ turn.reply = "submit"
    /\ current_criteria_index >= 1
    /\ responses[CriteriaId(current_criteria_index - 1)] = <<"o", "k">>

\* C10: in submission, a classifier failure or an out-of-taxonomy label
\* re-emits the submission prompt with requires_response = true, keeps the
\* state awaiting_submission and the answers unchanged; the state evaluating
\* is entered only by a turn classified submit.
C10_SubmissionFailsOpenToRepeat ==
    [][/\ (/\ IsTurn(turn')
           /\ turn'.state \in SubmissionStates
           /\ ClassifierMalfunction(turn', valid_submission_intents)) =>
           /\ response' = SubmissionPrompt
           /\ response'.requires_response = TRUE
           /\ conversation_state' = conversation_state
           /\ responses' = responses
       /\ (conversation_state # "evaluating" /\ conversation_state' = "evaluating") =>
           /\ IsTurn(turn')
           /\ turn'.reply \notin {NotCalled, LlmError}
           /\ strip_lower(turn'.reply) = "submit"]_vars

\* C10 witness: the classifier raised during submission and the Coordinator
\* is still awaiting submission
C10_Witness ==
    /\ IsTurn(turn)
    /\ turn.state = "awaiting_submission"
    /\ turn.reply = LlmError
    /\ conversation_state = "awaiting_submission"
    /\ Len(criteria) >= 1

\* a questioning turn classified repeat_previous while the index was 0
IsRepeatPreviousAtZero(t) ==
    /\ IsTurn(t)
    /\ t.state \in QuestioningStates
    /\ t.intent = "repeat_previous"
    /\ t.index = 0

\* C11: a questioning turn classified repeat_previous while the index is 0
\* leaves the answers and the index unchanged and returns the response that
\* a repeat_current classification returns in that state: the question of
\* criterion 0 with question_number = 1.
C11_RepeatPreviousAtZeroIsRepeatCurrent ==
    [][IsRepeatPreviousAtZero(turn') =>
        /\ responses' = responses
        /\ current_criteria_index' = current_criteria_index
        /\ response' = QuestioningProcessInput(turn'.text, "repeat_current",
                           TRUE, current_criteria_index, responses).response
        /\ response'.content = <<"question", CriteriaId(0)>>
        /\ response'.question_number = 1]_vars

\* C11 witness: repeat_previous arrived on the first question of a study
\* with several criteria
C11_Witness ==
    /\ IsRepeatPreviousAtZero(turn)
    /\ Len(criteria) >= 2
    /\ current_criteria_index = 0
    /\ response.question_number = 1

\* C12: completed is terminal: a process_user_response call made in the
\* state completed leaves the state completed, leaves the index and the
\* answers unchanged and returns is_final = true, requires_response = false.
C12_CompletedIsTerminal ==
    [][(conversation_state = "completed" /\ IsTurn(turn')) =>
        /\ conversation_state' = "completed"
        /\ current_criteria_index' = current_criteria_index
        /\ responses' = responses
        /\ response'.is_final = TRUE
        /\ response'.requires_response = FALSE]_vars

\* C12 witness: a turn arrived after the interview had completed with one
\* answer stored
C12_Witness ==
    /\ IsTurn(turn)
    /\ turn.state = "completed"
    /\ conversation_state = "completed"
    /\ DOMAIN responses # {}
    /\ response.is_final = TRUE

\* the edges of the conversation graph
StateEdges ==
    { <<"greeting", "waiting_consent">>,
      <<"waiting_consent", "consent_clarification">>,
      <<"consent_clarification", "waiting_consent">>,
      <<"waiting_consent", "asking_questions">>,
      <<"asking_questions", "awaiting_submission">>,
      <<"awaiting_submission", "evaluating">>,
      <<"evaluating", "completed">>,
      <<"waiting_consent", "completed">>,
      <<"asking_questions", "completed">>,
      <<"awaiting_submission", "completed">> }

\* C13: every change of conversation_state follows an edge of
\* greeting -> waiting_consent -> asking_questions -> awaiting_submission ->
\* evaluating -> completed, or an early exit from consent, questioning or
\* submission to completed.
C13_StateFollowsGraph ==
    [][conversation_state' # conversation_state =>
        <<conversation_state, conversation_state'>> \in StateEdges]_vars

\* C13 witness: the interview went all the way to complete_interview
C13_Witness ==
    /\ turn.op = "complete_interview"
    /\ conversation_state = "completed"
    /\ current_criteria_index = Len(criteria)
    /\ Len(criteria) >= 2

\* C14: current_agent matches conversation_state: the ConsentAgent while
\* waiting for consent, the QuestioningAgent while asking questions, the
\* SubmissionAgent while awaiting submission.
C14_AgentMatchesState ==
    /\ conversation_state \in ConsentStates => current_agent = "consent"
    /\ conversation_state \in QuestioningStates => current_agent = "questioning"
    /\ conversation_state \in SubmissionStates => current_agent = "submission"

\* C14 witness: the Coordinator is asking questions right after the consent
C14_Witness ==
    /\ IsTurn(turn)
    /\ turn.state \in ConsentStates
    /\ conversation_state = "asking_questions"
    /\ current_agent = "questioning"

\* C15: after every process_user_response call whose response has
\* is_final = true or consent_rejected = true the Coordinator is completed,
\* in whatever state the call was made.
C15_FinalMeansCompleted ==
    [][(/\ IsTurn(turn')
        /\ Truthy(response', "is_final") \/ Truthy(response', "consent_rejected")) =>
        conversation_state' = "completed"]_vars

\* a turn dispatched to one of the three phase agents
IsPhaseTurn(t) ==
    /\ IsTurn(t)
    /\ t.state \in ConsentStates \cup QuestioningStates \cup SubmissionStates

\* C16 as stated: the response returned by process_user_response is exactly
\* the response of the phase agent that owned the state at dispatch, also on
\* a consent YES.
C16_ResponseIsAgentResponse ==
    [][IsPhaseTurn(turn') => response' = turn'.agent_response]_vars

\* C16 amended: the response returned is exactly the phase agent's response,
\* except on a consent YES (the ConsentAgent's response carries
\* transition_to = questioning): there the caller receives the
\* QuestioningAgent's initial message, the question at the current index with
\* requires_response = true and no transition_to, or the "completed all
\* questions" message with requires_response = false when the study has no
\* criterion left.
C16_ResponseIsAgentResponseOrFirstQuestion ==
    [][IsPhaseTurn(turn') =>
        IF TransitionIs(turn'.agent_response, "questioning")
        THEN /\ turn'.state \in ConsentStates
             /\ turn'.agent_response.requires_response = FALSE
             /\ "transition_to" \notin DOMAIN response'
             /\ response'.is_final = FALSE
             /\ IF current_criteria_index < Len(criteria)
                THEN /\ response'.content = <<"question", CriteriaId(current_criteria_index)>>
                     /\ response'.requires_response = TRUE
                     /\ response'.question_number = current_criteria_index + 1
                ELSE /\ response'.content = <<"completed_all_questions", 0>>
                     /\ response'.requires_response = FALSE
                     /\ response'.question_number = Len(criteria)
        ELSE response' = turn'.agent_response]_vars

\* C16 witness: a consent YES answered with the first question
C16_Witness ==
    /\ IsPhaseTurn(turn)
    /\ turn.intent = "YES"
    /\ TransitionIs(turn.agent_response, "questioning")
    /\ response.content = <<"question", 1>>
    /\ response # turn.agent_response

\* the last call was evaluate_eligibility
IsEvaluation(t) == t.op = "evaluate_eligibility"

\* the ids of the answered criteria, as evaluate_eligibility collects them
Answered == criteria_with_responses(criteria, responses, Len(criteria))

\* every judge call of an answered criterion either failed (raised or
\* returned unparseable text) or returned an object with meets_criteria
JudgesFailOrAnswer(judge) ==
    \A i \in 1..Len(Answered) : judge[Answered[i]].kind # "no_meets"

\* the judgment e is exactly the output o of its judge
CarriesJudgeOutput(e, o) ==
    /\ e.meets_criteria = o.meets_criteria
    /\ IF o.kind = "ok"
       THEN "confidence" \in DOMAIN e /\ e.confidence = o.confidence
       ELSE "confidence" \notin DOMAIN e

\* C17: whichever judge calls raise or return unparseable text,
\* evaluate_eligibility returns a verdict with one judgment per answered
\* criterion: a failed criterion carries meets_criteria = false and
\* confidence = 0.0, every other criterion carries its own judge's output.
C17_JudgeFailuresAreIsolated ==
    (IsEvaluation(turn) /\ JudgesFailOrAnswer(turn.judge)) =>
        /\ verdict.summary # "error_occurred"
        /\ Len(verdict.criteria_met) = Len(Answered)
        /\ \A i \in 1..Len(Answered) :
              LET e == verdict.criteria_met[i]
                  o == turn.judge[Answered[i]]
              IN  /\ e.criteria_id = Answered[i]
                  /\ IF o.kind = "error"
                     THEN e.meets_criteria = FALSE /\ e.confidence = FZero
                     ELSE CarriesJudgeOutput(e, o)

\* C17 witness: of two answered criteria the first judge failed and the
\* second judged the criterion met
C17_Witness ==
    /\ IsEvaluation(turn)
    /\ Len(Answered) = 2
    /\ turn.judge[1].kind = "error"
    /\ turn.judge[2].kind = "ok"
    /\ verdict.criteria_met[1].meets_criteria = FALSE
    /\ verdict.criteria_met[2].meets_criteria = TRUE

\* the strings get_initial_greeting can return
GreetingStrings ==
    {<<"generated", 0>>, <<"greeting_fallback", 0>>, <<"coordinator_fallback", 0>>}

\* C18: get_initial_greeting never fails: whether the Free-text Responder
\* succeeds or fails it returns a greeting string and leaves the state
\* waiting_consent, the index 0 and the answers unchanged.
C18_GreetingNeverFails ==
    [][(conversation_state = "greeting" /\ turn'.op = "get_initial_greeting") =>
        /\ response' \in GreetingStrings
        /\ turn'.responder = "ok" <=> response' = <<"generated", 0>>
        /\ conversation_state' = "waiting_consent"
        /\ current_criteria_index' = 0
        /\ responses' = responses]_vars

\* C18 witness: the Free-text Responder failed and the templated greeting
\* was returned
C18_Witness ==
    /\ turn.op = "get_initial_greeting"
    /\ turn.responder = "failed"
    /\ response = <<"greeting_fallback", 0>>
    /\ conversation_state = "waiting_consent"

\* the event loop has just resumed the other connection
Resumed == peer # NoPeer /\ peer' # NoPeer /\ peer'.running # peer.running

\* the running connection has just taken a turn
RunningTurn == peer # NoPeer /\ peer' # NoPeer /\ peer'.running = peer.running

\* C19: sessions do not interfere: a connection that is resumed finds its
\* conversation_state, its index, its answers and its last response as its
\* own last turn left them, whatever the other connection did in between; a
\* new connection starts with an empty session; a turn of the running
\* connection changes nothing of the parked one.
C19_SessionsDoNotInterfere ==
    [][/\ Resumed =>
           /\ conversation_state' = peer.coordinator.conversation_state
           /\ current_criteria_index' = peer.coordinator.current_criteria_index
           /\ responses' = peer.responses
           /\ response' = peer.coordinator.response
       /\ (peer = NoPeer /\ peer' # NoPeer) =>
           /\ responses' = <<>>
           /\ current_criteria_index' = 0
           /\ conversation_state' = "greeting"
           /\ peer'.responses = responses
       /\ RunningTurn =>
           /\ peer'.coordinator = peer.coordinator
           /\ peer'.responses = peer.responses]_vars

\* C19 witness: the first connection runs again, both sessions hold an
\* answer, and the two answers and the two states differ
C19_Witness ==
    /\ peer # NoPeer
    /\ peer.running = 1
    /\ IsTurn(turn)
    /\ 1 \in DOMAIN responses
    /\ 1 \in DOMAIN peer.responses
    /\ responses[1] # peer.responses[1]
    /\ conversation_state # peer.coordinator.conversation_state

\* the response fields the two implementations are compared on
ComparedFlags ==
    {"requires_response", "is_final", "consent_rejected", "awaiting_submission",
     "evaluating", "question_number", "total_questions"}

\* r.get(k), "absent" for a missing key
Get(r, k) == IF k \in DOMAIN r THEN r[k] ELSE "absent"

\* the Coordinator and the ClinicalTrialAgent are in the same state
InStep ==
    /\ legacy.agent.conversation_state = conversation_state
    /\ legacy.agent.current_criteria_index = coord_criteria_index
    /\ legacy.agent.current_criteria_index = current_criteria_index
    /\ legacy.agent.responses = responses

IsAnsweredSubmissionQuestion(t) ==
    /\ t.state \in SubmissionStates
    /\ t.intent \in {"unclear", "study_question"}
    /\ t.responder = "ok"

AfterQuestioningStates == {"awaiting_submission", "evaluating", "completed"}

\* C21 as stated: for every study size, a study with zero criteria included,
\* the index equals len(criteria) only in awaiting_submission, evaluating or
\* completed.
C21_IndexAtEndOnlyAfterQuestioning ==
    current_criteria_index = Len(criteria) =>
        conversation_state \in AfterQuestioningStates

\* C21 amended: for every study with at least one criterion, the index
\* equals len(criteria) only in awaiting_submission, evaluating or completed
\* (with zero criteria the index is 0 = len(criteria) in every state).
C21_IndexAtEndOnlyAfterQuestioningNonEmpty ==
    /\ Len(criteria) > 0 /\ current_criteria_index = Len(criteria) =>
          conversation_state \in AfterQuestioningStates
    /\ Len(criteria) = 0 => current_criteria_index = 0

\* C21 witness: the last answer of a study of two criteria has been stored
C21_Witness ==
    /\ Len(criteria) = 2
    /\ current_criteria_index = Len(criteria)
    /\ conversation_state = "awaiting_submission"
    /\ IsTurn(turn) /\ turn.intent = "answer"

\* a questioning turn with the given intent, at an index below len(criteria)
IsQuestioningTurn(t, intent) ==
    /\ IsTurn(t)
    /\ t.state \in QuestioningStates
    /\ t.intent = intent
    /\ t.index < Len(criteria)

\* every stored answer except that of criterion id is as it was
OthersUnchanged(id) ==
    /\ DOMAIN responses' \ {id} = DOMAIN responses \ {id}
    /\ \A k \in DOMAIN responses \ {id} : responses'[k] = responses[k]

\* C22: a questioning turn classified answer at index i stores the trimmed
\* text under criterion i, leaves the other answers alone and moves the index
\* to i+1; it returns question i+1 and stays in asking_questions, or after
\* the last criterion returns the submission prompt with transition_to =
\* submission and moves to awaiting_submission.
C22_AnswerStoresAndAdvances ==
    [][IsQuestioningTurn(turn', "answer") =>
        LET i == current_criteria_index
            id == CriteriaId(i)
        IN  /\ id \in DOMAIN responses'
            /\ responses'[id] = strip(turn'.text)
            /\ OthersUnchanged(id)
            /\ current_criteria_index' = i + 1
            /\ coord_criteria_index' = i + 1
            /\ IF i + 1 < Len(criteria)
               THEN /\ response'.content = <<"question", CriteriaId(i + 1)>>
                    /\ response'.question_number = i + 2
                    /\ response'.requires_response = TRUE
                    /\ conversation_state' = "asking_questions"
                    /\ conversation_state' = conversation_state
               ELSE /\ TransitionIs(response', "submission")
                    /\ Truthy(response', "awaiting_submission")
                    /\ response'.requires_response = TRUE
                    /\ conversation_state' = "awaiting_submission"]_vars

\* C22 witness: the answer " ok\n" to the second of three questions was
\* stored as "ok", next to the first answer
C22_Witness ==
    /\ IsQuestioningTurn(turn, "answer")
    /\ Len(criteria) = 3
    /\ turn.index = 1
    /\ turn.text = <<" ", "o", "k", "\n">>
    /\ DOMAIN responses = {1, 2}
    /\ responses[2] = <<"o", "k">>
    /\ current_criteria_index = 2
    /\ conversation_state = "asking_questions"

\* C23: a questioning turn classified repeat_previous at index i > 0 removes
\* the stored answer of criterion i-1, leaves the other answers alone, sets
\* the index to i-1, returns the question of criterion i-1 with
\* question_number = i and stays in asking_questions.
C23_RepeatPreviousGoesBackOne ==
    [][(IsQuestioningTurn(turn', "repeat_previous") /\ current_criteria_index > 0) =>
        LET i == current_criteria_index
            id == CriteriaId(i - 1)
        IN  /\ id \notin DOMAIN responses'
            /\ OthersUnchanged(id)
            /\ current_criteria_index' = i - 1
            /\ coord_criteria_index' = i - 1
            /\ response'.content = <<"question", id>>
            /\ response'.question_number = i
            /\ response'.requires_response = TRUE
            /\ response'.is_final = FALSE
            /\ "transition_to" \notin DOMAIN response'
            /\ conversation_state = "asking_questions"
            /\ conversation_state' = "asking_questions"]_vars

\* C23 witness: at the third question the participant went back to the
\* second; the first answer is still stored, the second is gone
C23_Witness ==
    /\ IsQuestioningTurn(turn, "repeat_previous")
    /\ turn.index = 2
    /\ current_criteria_index = 1
    /\ DOMAIN responses = {1}
    /\ response.content = <<"question", 2>>

\* C24: a questioning turn classified repeat_current or unclear at index i
\* leaves the index, the stored answers and the conversation state as they
\* were and returns requires_response = true, is_final = false and
\* question_number = i+1; for repeat_current the content is question i, for
\* unclear this holds whether the Free-text Responder succeeds or fails.
C24_RepeatCurrentAndUnclearChangeNothing ==
    [][(IsQuestioningTurn(turn', "repeat_current") \/ IsQuestioningTurn(turn', "unclear")) =>
        /\ UNCHANGED <<current_criteria_index, coord_criteria_index,
                       responses, conversation_state, current_agent>>
        /\ response'.requires_response = TRUE
        /\ response'.is_final = FALSE
        /\ response'.question_number = current_criteria_index + 1
        /\ "transition_to" \notin DOMAIN response'
        /\ turn'.intent = "repeat_current" =>
              /\ response'.content = <<"question", CriteriaId(current_criteria_index)>>
              /\ turn'.responder = NotCalled
        /\ turn'.intent = "unclear" => turn'.responder \in {"ok", "failed"}]_vars

\* C24 witness: an unclear turn at the second question whose Responder call
\* failed; the first answer is stored and the index is still 1
C24_Witness ==
    /\ IsQuestioningTurn(turn, "unclear")
    /\ turn.responder = "failed"
    /\ turn.index = 1
    /\ current_criteria_index = 1
    /\ DOMAIN responses = {1}
    /\ conversation_state = "asking_questions"
    /\ response.question_number = 2

\* the turn is answered with the speak-more-clearly reprompt and changes
\* nothing
SpeakClearlyAndStay ==
    /\ response'.content = <<"speak_clearly", 0>>
    /\ response'.requires_response = TRUE
    /\ response'.is_final = FALSE
    /\ "transition_to" \notin DOMAIN response'
    /\ turn'.reply = NotCalled
    /\ turn'.responder = NotCalled
    /\ UNCHANGED <<conversation_state, current_criteria_index,
                   coord_criteria_index, responses>>

\* a phase turn whose text is the sentinel after trimming
IsSentinelTurn(t) == IsPhaseTurn(t) /\ strip(t.text) = AmbiguousSound

\* C25 as stated: in the consent, questioning and submission phases alike, a
\* text that equals "Ambiguous sound." after trimming gets the reprompt
\* without a classifier call and changes nothing.
C25_SentinelReprompts ==
    [][IsSentinelTurn(turn') => SpeakClearlyAndStay]_vars

\* C25 amended: the same, in the questioning phase only while a criterion is
\* current (index < len(criteria)); a questioning turn at index =
\* len(criteria) is answered with the final "interview completed" response
\* whatever the text.
C25_SentinelRepromptsWhileCriterionCurrent ==
    [][IsSentinelTurn(turn') =>
        IF turn'.state \in QuestioningStates /\ current_criteria_index >= Len(criteria)
        THEN /\ response'.is_final = TRUE
             /\ turn'.reply = NotCalled
             /\ conversation_state' = "completed"
        ELSE SpeakClearlyAndStay]_vars

\* C25 witness: " Ambiguous sound.\n" said at the second question
C25_Witness ==
    /\ IsSentinelTurn(turn)
    /\ turn.text # AmbiguousSound
    /\ turn.state = "asking_questions"
    /\ turn.index = 1
    /\ current_criteria_index = 1
    /\ response.content = <<"speak_clearly", 0>>
    /\ response.question_number = 2
    /\ DOMAIN responses = {1}

\* a consent turn whose classifier returned a label other than YES and NO
IsConsentClarify(t) ==
    /\ IsTurn(t)
    /\ t.state \in ConsentStates
    /\ t.reply \notin {NotCalled, LlmError}
    /\ strip_upper(t.reply) \notin {"YES", "NO"}

\* C26: a consent turn labelled CLARIFY, or with any label other than YES and
\* NO, keeps the Coordinator in waiting_consent and returns requires_response
\* = true, is_final = false and question_number = 0, whether the Free-text
\* Responder succeeds or fails; the index and the stored answers are
\* unchanged.
C26_ClarifyStaysInConsent ==
    [][IsConsentClarify(turn') =>
        /\ conversation_state = "waiting_consent"
        /\ conversation_state' = "waiting_consent"
        /\ response'.requires_response = TRUE
        /\ response'.is_final = FALSE
        /\ response'.question_number = 0
        /\ "transition_to" \notin DOMAIN response'
        /\ turn'.responder \in {"ok", "failed"}
        /\ turn'.responder = "failed" =>
              response'.content = <<"clarification_fallback", 0>>
        /\ UNCHANGED <<current_criteria_index, coord_criteria_index, responses>>]_vars

\* C26 witness: the classifier answered with a label outside the consent
\* taxonomy and the Responder failed; the templated clarification was sent
C26_Witness ==
    /\ IsConsentClarify(turn)
    /\ turn.reply = "unclear"
    /\ turn.responder = "failed"
    /\ conversation_state = "waiting_consent"
    /\ response.content = <<"clarification_fallback", 0>>
    /\ response.requires_response = TRUE

\* C27: the state evaluating is entered only from awaiting_submission, by a
\* turn classified submit whose response has transition_to = evaluation,
\* evaluating = true, requires_response = false and is_final = false and
\* which leaves the stored answers unchanged; whenever the state is
\* evaluating, every criterion has a stored answer.
C27_EvaluatingOnlyBySubmit ==
    [][/\ (conversation_state' = "evaluating" /\ conversation_state # "evaluating") =>
            /\ conversation_state = "awaiting_submission"
            /\ IsTurn(turn')
            /\ turn'.state = "awaiting_submission"
            /\ turn'.intent = "submit"
            /\ TransitionIs(response', "evaluation")
            /\ Truthy(response', "evaluating")
            /\ response'.requires_response = FALSE
            /\ response'.is_final = FALSE
            /\ UNCHANGED <<responses, current_criteria_index>>
       /\ conversation_state' = "evaluating" =>
            \A i \in 1..Len(criteria) : CriteriaId(i - 1) \in DOMAIN responses'
      ]_vars

\* C27 witness: the submit turn of a study of three criteria has been taken
C27_Witness ==
    /\ conversation_state = "evaluating"
    /\ IsTurn(turn)
    /\ turn.state = "awaiting_submission"
    /\ turn.intent = "submit"
    /\ Len(criteria) = 3
    /\ DOMAIN responses = {1, 2, 3}
    /\ Truthy(response, "evaluating")

\* C28 as stated: when the judge of an answered criterion returns an object
\* without meets_criteria, that criterion gets the conservative default
\* judgment (meets_criteria = false, confidence = 0.0) and the verdict still
\* has the judgments of all answered criteria and a decision.
C28_MissingFieldGetsDefault ==
    IsEvaluation(turn) =>
        /\ Len(verdict.criteria_met) = Len(Answered)
        /\ "decision_algorithm_result" \in DOMAIN verdict
        /\ \A i \in 1..Len(Answered) :
              turn.judge[Answered[i]].kind = "no_meets" =>
                  /\ verdict.criteria_met[i].meets_criteria = FALSE
                  /\ verdict.criteria_met[i].confidence = FZero

\* C29 as stated: evaluate_eligibility judges exactly the criteria with a
\* non-empty stored response and returns one judgment for each of them, in
\* criteria order, after which decide receives one entry per judgment;
\* criteria with a missing or empty response appear in neither.
C29_OneJudgmentPerAnsweredCriterion ==
    IsEvaluation(turn) =>
        /\ \A id \in 1..Len(criteria) :
              (\E i \in 1..Len(Answered) : Answered[i] = id)
                  <=> (id \in DOMAIN responses /\ responses[id] # <<>>)
        /\ \A i \in 1..Len(Answered), j \in 1..Len(Answered) :
              i < j => Answered[i] < Answered[j]
        /\ Len(verdict.criteria_met) = Len(Answered)
        /\ \A i \in 1..Len(Answered) :
              verdict.criteria_met[i].criteria_id = Answered[i]
        /\ Len(questions) = Len(Answered)
        /\ decision = decide(questions)
        /\ verdict.decision_algorithm_result = decision

\* the judgments of the verdict that count as met, and all of them, weighted
\* with high = 5, medium = 2, low = 1
JudgedWeight(e) ==
    IF e.priority = "high" THEN 5 ELSE IF e.priority = "medium" THEN 2 ELSE 1

MetWeightSum(cm) ==
    SumSeq([i \in 1..Len(cm) |-> IF cm[i].meets_criteria THEN JudgedWeight(cm[i]) ELSE 0],
           Len(cm))

AllWeightSum(cm) ==
    SumSeq([i \in 1..Len(cm) |-> JudgedWeight(cm[i])], Len(cm))

\* the score, in tenths of a percent, is within half a tenth of
\* 100 * met / all
IsRoundedPercentage(tenths, met, all) ==
    /\ 2 * (tenths * all - 1000 * met) <= all
    /\ 2 * (1000 * met - tenths * all) <= all

\* C30 as stated: the legacy score equals 100 * (weight of the judged
\* criteria that are met) / (weight of all judged criteria), is 0 when no
\* criterion was judged and lies in [0, 100].
C30_LegacyScoreIsWeightedShare ==
    IsEvaluation(turn) =>
        LET cm == verdict.criteria_met
        IN  /\ verdict.score >= 0 /\ verdict.score <= 1000
            /\ IF Len(cm) = 0 THEN verdict.score = 0
               ELSE verdict.score * AllWeightSum(cm) = 1000 * MetWeightSum(cm)

\* C30 amended: the legacy score equals that quotient rounded to one
\* decimal place, is 0 when no criterion was judged, lies in [0, 100] and
\* is determined by the priorities and meets_criteria values alone.
C30_LegacyScoreIsRoundedWeightedShare ==
    IsEvaluation(turn) =>
        LET cm == verdict.criteria_met
        IN  /\ verdict.score >= 0 /\ verdict.score <= 1000
            /\ IF Len(cm) = 0 THEN verdict.score = 0
               ELSE IsRoundedPercentage(verdict.score, MetWeightSum(cm), AllWeightSum(cm))

\* C30 witness: a high criterion judged not met with confidence 0.1 and a
\* medium one judged met: 2 / 7 of the weight, reported as 28.6
C30_Witness ==
    /\ IsEvaluation(turn)
    /\ Len(verdict.criteria_met) = 2
    /\ verdict.criteria_met[1].priority = "high"
    /\ verdict.criteria_met[1].meets_criteria = FALSE
    /\ "confidence" \in DOMAIN verdict.criteria_met[1]
    /\ verdict.criteria_met[1].confidence = FromDecimal(1, 10)
    /\ verdict.criteria_met[2].priority = "medium"
    /\ verdict.criteria_met[2].meets_criteria = TRUE
    /\ verdict.score = 286

\* a questioning turn processed while the index is at or past len(criteria)
IsPastEndTurn(t) ==
    /\ IsTurn(t)
    /\ t.state \in QuestioningStates
    /\ t.index >= Len(criteria)

\* C32: a questioning turn processed while current_criteria_index >=
\* len(criteria) returns a terminal response (is_final = true,
\* requires_response = false), stores nothing and moves the Coordinator to
\* completed; the interview of such a study (one with zero criteria) never
\* passes through awaiting_submission or evaluating.
C32_PastEndTurnIsTerminal ==
    [][/\ IsPastEndTurn(turn') =>
            /\ current_criteria_index >= Len(criteria)
            /\ response'.is_final = TRUE
            /\ response'.requires_response = FALSE
            /\ "transition_to" \notin DOMAIN response'
            /\ turn'.reply = NotCalled
            /\ turn'.responder = NotCalled
            /\ UNCHANGED <<responses, current_criteria_index, coord_criteria_index>>
            /\ conversation_state' = "completed"
            /\ Len(criteria) = 0
       /\ Len(criteria) = 0 =>
            conversation_state' \notin {"awaiting_submission", "evaluating"}
      ]_vars

\* C32 witness: in a study with zero criteria the turn after the consent YES
\* ended the interview
C32_Witness ==
    /\ IsPastEndTurn(turn)
    /\ Len(criteria) = 0
    /\ turn.state = "asking_questions"
    /\ conversation_state = "completed"
    /\ response.content = <<"interview_completed", 0>>
    /\ responses = <<>>

\* a turn of the broken classifier advances the index by exactly one and
\* leaves asking_questions exactly when the last criterion was answered
FailOpenStep ==
    (conversation_state = "asking_questions" /\ current_criteria_index < Len(criteria)) =>
        /\ current_criteria_index' = current_criteria_index + 1
        /\ turn'.intent = "answer"
        /\ current_criteria_index' < Len(criteria) =>
              conversation_state' = "asking_questions"
        /\ current_criteria_index' = Len(criteria) =>
              conversation_state' = "awaiting_submission"

\* C33 as stated: from every state asking_questions at index i, with the
\* classifier failing on every turn, each turn advances the index by one and
\* the Coordinator reaches awaiting_submission, after len(criteria) - i
\* turns.
C33_BrokenClassifierReachesSubmission ==
    /\ [][FailOpenStep]_vars
    /\ <>(conversation_state = "awaiting_submission")

\* C33 amended: the same from every state asking_questions at an index
\* i < len(criteria); a study with zero criteria is in asking_questions at
\* index 0 = len(criteria) and never reaches awaiting_submission.
C33_BrokenClassifierReachesSubmissionNonEmpty ==
    /\ [][FailOpenStep]_vars
    /\ (current_criteria_index < Len(criteria)) ~>
          (conversation_state = "awaiting_submission"
             /\ current_criteria_index = Len(criteria))
    /\ [](Len(criteria) = 0 => conversation_state # "awaiting_submission")

\* C33 witness: the classifier raised on the turn that answered the last of
\* three criteria
C33_Witness ==
    /\ IsTurn(turn)
    /\ turn.reply = LlmError
    /\ turn.intent = "answer"
    /\ Len(criteria) = 3
    /\ current_criteria_index = 3
    /\ conversation_state = "awaiting_submission"
    /\ DOMAIN responses = {1, 2, 3}

\* every answered criterion's judge call failed, or no criterion has a
\* non-empty response
NoInformation(judge) ==
    \A i \in 1..Len(Answered) : judge[Answered[i]].kind = "error"

\* C35: when no criterion has a non-empty response, or every judge call
\* failed and every judgment is the conservative default, the verdict has
\* eligible = true, decision_algorithm_result = Accept and
\* decision_algorithm_score = 0.
C35_NoInformationIsAccepted ==
    (IsEvaluation(turn) /\ NoInformation(turn.judge)) =>
        /\ verdict.eligible = TRUE
        /\ verdict.decision_algorithm_result = "Accept"
        /\ verdict.decision_algorithm_score = 0
        /\ \A i \in 1..Len(verdict.criteria_met) :
              /\ verdict.criteria_met[i].meets_criteria = FALSE
              /\ verdict.criteria_met[i].confidence = FZero

\* C35 witness: two answered criteria, the first of high priority, both
\* judge calls failed, and the participant is eligible
C35_Witness ==
    /\ IsEvaluation(turn)
    /\ Len(Answered) = 2
    /\ criteria[1] = "high"
    /\ NoInformation(turn.judge)
    /\ verdict.eligible = TRUE
    /\ verdict.score = 0

BeforeConsentStates == {"greeting", "waiting_consent", "consent_clarification"}

\* a step that stores an answer or changes a stored one
StoresAnswer ==
    \E k \in DOMAIN responses' :
        k \notin DOMAIN responses \/ responses'[k] # responses[k]

\* C36: starting from a new Coordinator on a session with empty responses,
\* while the state is greeting or waiting_consent (or consent_clarification)
\* the responses are empty and the index is 0; an answer is stored only by a
\* questioning turn, and the questioning phase is entered only by a consent
\* turn classified YES; a consent NO ends the interview with no stored
\* answers, and none is stored afterwards.
C36_ConsentPrecedesAnswers ==
    /\ conversation_state = "greeting" /\ responses = <<>>
    /\ [](conversation_state \in BeforeConsentStates =>
            responses = <<>> /\ current_criteria_index = 0)
    /\ [][/\ StoresAnswer =>
               /\ conversation_state \in QuestioningStates
               /\ turn'.state \in QuestioningStates
               /\ turn'.intent = "answer"
          /\ (conversation_state \notin QuestioningStates
              /\ conversation_state' \in QuestioningStates) =>
               /\ conversation_state \in ConsentStates
               /\ turn'.state \in ConsentStates
               /\ turn'.intent = "YES"
          /\ (IsTurn(turn') /\ turn'.state \in ConsentStates
              /\ turn'.intent = "NO") =>
               /\ conversation_state' = "completed"
               /\ responses' = <<>>
          /\ (conversation_state = "completed" /\ responses = <<>>) =>
               (conversation_state' = "completed" /\ responses' = <<>>)]_vars

\* C36 witness: the first answer has just been stored, in a questioning turn
\* of an interview whose consent turn was classified YES
C36_Witness ==
    /\ IsTurn(turn)
    /\ turn.state = "asking_questions"
    /\ turn.intent = "answer"
    /\ turn.index = 0
    /\ DOMAIN responses = {CriteriaId(0)}
    /\ conversation_state = "asking_questions"

\* a consent turn whose Intent Classifier call raised
IsConsentClassifierFailure(t) ==
    /\ IsTurn(t)
    /\ t.state \in ConsentStates
    /\ t.reply = LlmError

\* C37: a consent turn whose Intent Classifier call raises returns is_final =
\* true and requires_response = false without a consent_rejected flag and
\* leaves the Coordinator in completed; every later turn of the session gets
\* the terminal "interview completed" response, so consent cannot be retried.
C37_ConsentClassifierFailureEnds ==
    [][/\ IsConsentClassifierFailure(turn') =>
            /\ response'.is_final = TRUE
            /\ response'.requires_response = FALSE
            /\ ~Truthy(response', "consent_rejected")
            /\ "transition_to" \notin DOMAIN response'
            /\ conversation_state' = "completed"
            /\ UNCHANGED <<current_criteria_index, responses>>
       /\ (IsConsentClassifierFailure(turn) /\ IsTurn(turn')) =>
            /\ turn'.state = "completed"
            /\ turn'.reply = NotCalled
            /\ response'.is_final = TRUE
            /\ conversation_state' = "completed"
       /\ (conversation_state = "completed") =>
            conversation_state' = "completed"]_vars

\* C37 witness: the classifier raised on the first consent turn and the
\* interview is over
C37_Witness ==
    /\ IsConsentClassifierFailure(turn)
    /\ turn.state = "waiting_consent"
    /\ response.content = <<"consent_error", 0>>
    /\ conversation_state = "completed"
    /\ responses = <<>>

\* the Coordinator was constructed on a session with empty responses
StartedOnEmptySession ==
    peer = NoPeer \/ peer.responses_at_connect = <<>>

\* a questioning turn classified answer at index i < len(criteria) has just
\* been processed, and the next turn, at index i+1 < len(criteria), is
\* classified repeat_previous
AnswerThenRepeatPrevious ==
    /\ IsQuestioningTurn(turn, "answer")
    /\ turn.index + 1 < Len(criteria)
    /\ IsQuestioningTurn(turn', "repeat_previous")

\* the index and the responses are those at the dispatch of the answer turn
RestoresBeforeAnswer ==
    /\ current_criteria_index' = turn.index
    /\ coord_criteria_index' = turn.index
    /\ responses' = turn.responses_before

\* a process_user_response or complete_interview step
IsCoordinatorCall(t) == t.op \in {"process_user_response", "complete_interview"}

\* once the state is awaiting_submission or later, no call decreases the
\* index or removes or changes a stored answer
NoUndoAfterSubmission ==
    (/\ conversation_state \in SubmissionStates \cup {"evaluating", "completed"}
     /\ IsCoordinatorCall(turn')) =>
        /\ current_criteria_index' >= current_criteria_index
        /\ \A k \in DOMAIN responses :
              k \in DOMAIN responses' /\ responses'[k] = responses[k]
        /\ conversation_state' \in SubmissionStates \cup {"evaluating", "completed"}

\* C38 as stated: from every reachable questioning state, also that of a
\* Coordinator constructed on a session that already holds answers, an
\* answer turn followed by a repeat_previous turn restores the index and the
\* responses; from awaiting_submission on nothing is undone.
C38_RepeatPreviousUndoesAnswer ==
    [][/\ AnswerThenRepeatPrevious => RestoresBeforeAnswer
       /\ NoUndoAfterSubmission]_vars

\* C38 amended: for a Coordinator constructed on a session with empty
\* responses, from every reachable questioning state with index i <
\* len(criteria) an answer turn followed (when i+1 < len(criteria)) by a
\* repeat_previous turn restores exactly the earlier index and responses;
\* once the last criterion has been answered and the state is
\* awaiting_submission, no turn decreases the index or removes a stored
\* answer.
C38_RepeatPreviousUndoesAnswerOnNewSession ==
    [][/\ (StartedOnEmptySession /\ AnswerThenRepeatPrevious) =>
            RestoresBeforeAnswer
       /\ NoUndoAfterSubmission]_vars

\* C38 witness: on a new session the second criterion was answered and then
\* a repeat_previous brought back the index and the single stored answer
C38_Witness ==
    /\ StartedOnEmptySession
    /\ IsQuestioningTurn(turn, "repeat_previous")
    /\ turn.index = 1
    /\ DOMAIN turn.responses_before = {CriteriaId(0)}
    /\ current_criteria_index = 0
    /\ responses = <<>>
    /\ Len(criteria) = 2

\* the handle_text_input calls of the connection that have not returned
InFlight == peer.in_flight

\* C34: on one connection at most one message is being handled at any time;
\* a message is dispatched only when no earlier one is still being handled
\* (its turn and, after a submit, the evaluation and complete_interview
\* have finished), and every change of current_criteria_index or of the
\* session's responses is made by the turn of the single message in flight.
C34_OneTurnAtATime ==
    /\ [](Len(InFlight) <= 1)
    /\ [](peer.loop = "receive" => InFlight = <<>>)
    /\ [][/\ Len(InFlight') > Len(InFlight) => InFlight = <<>>
          /\ (current_criteria_index' # current_criteria_index
              \/ responses' # responses) =>
                /\ Len(InFlight) = 1
                /\ InFlight[1].at = "process"
                /\ turn'.text = InFlight[1].msg]_vars

\* C34 witness: the client has sent its next message while the evaluation
\* of the submitted interview is still running; the message waits
C34_Witness ==
    /\ Len(InFlight) = 1
    /\ InFlight[1].at = "complete"
    /\ peer.inbox # <<>>
    /\ peer.loop = "handling"
    /\ conversation_state = "evaluating"
    /\ verdict # NoVerdict

\* C31: constructing a Coordinator for an unknown study raises no
\* exception: the construction returns a Coordinator, which can be started
\* and answers with a terminal response.
C31_UnknownStudyGetsTerminalResponse ==
    (turn.op = "__init__" /\ ~turn.study_known) =>
        /\ "raised" \notin DOMAIN turn
        /\ conversation_state # NoCoordinator

=============================================================================
